---- MODULE Spec2Model ----
(***************************************************************************)
(* Model of the repricing decision engine of driffle_tool                  *)
(* (src/logic/universal_processor.py) and of the competition analyzer it   *)
(* calls (src/services/analyze_g2a_competition.py).                        *)
(*                                                                         *)
(* Prices and adjustments are fixed-point integers in thousandths of a     *)
(* currency unit: 5.00 is 5000, one cent is 10.  An optional value         *)
(* (Python None or a value) is the empty tuple or a one-element tuple.     *)
(***************************************************************************)
EXTENDS Integers, Sequences, FiniteSets, TLC

None == <<>>
Some(v) == <<v>>
Val(x) == x[1]

Abs(x) == IF x < 0 THEN -x ELSE x
Max(a, b) == IF a >= b THEN a ELSE b
Min(a, b) == IF a <= b THEN a ELSE b

(***************************************************************************)
(* Bounds of the model and the sets the inputs are drawn from.             *)
(***************************************************************************)
MaxOffers == 2

ProductNames == {None, Some(""), Some("Elden Ring")}
ProductCompares == {None, Some("700583")}
PriceRoundings == {None, Some(-1), Some(1), Some(2)}
CompareModes == 0..3
Bands == {<<None, None>>, <<Some(40), None>>, <<Some(10), Some(40)>>, <<Some(40), Some(10)>>}
MinPrices == {None, Some(5000), Some(5004), Some(6000)}
MaxPrices == {None, Some(4500), Some(8500)}
BlackLists == {None, Some({"b"})}
SellerNames == {"A", "B"}
CompetitorPrices == {4800, 8000, 9000}
CurrentPrices == {4000, 5000, 7000, 10000}
ErrorTexts == {"adapter timeout"}

Payloads ==
    {[product_name |-> name,
      product_compare |-> compare,
      price_rounding |-> rounding,
      compare_mode |-> mode,
      min_price_adjustment |-> band[1],
      max_price_adjustment |-> band[2],
      fetched_min_price |-> lo,
      fetched_max_price |-> hi,
      fetched_black_list |-> black,
      current_price |-> None,
      offer_id |-> None,
      applied_adj |-> 0] :
        name \in ProductNames, compare \in ProductCompares, rounding \in PriceRoundings,
        mode \in CompareModes, band \in Bands, lo \in MinPrices, hi \in MaxPrices,
        black \in BlackLists}

StandardCompetitorOffer == [seller_name : SellerNames, price : CompetitorPrices]

StandardCurrentOffer == [offer_id : {"700583"}, price : CurrentPrices, offer_type : {"key"}]

OfferLists == UNION {[1..n -> StandardCompetitorOffer] : n \in 0..MaxOffers}

(***************************************************************************)
(* Helpers of the payload and of utils.                                    *)
(***************************************************************************)
get_compare_mode(p) == p.compare_mode

get_min_price_value(p) == p.fetched_min_price

RECURSIVE Pow10(_)
Pow10(n) == IF n <= 0 THEN 1 ELSE 10 * Pow10(n - 1)

\* 10^-n of a currency unit, in thousandths (n <= 3)
StepOf(n) == Pow10(3 - n)

DefaultStep == 10

CeilTo(x, s) == IF x % s = 0 THEN x ELSE x + (s - (x % s))

\* round_up_to_n_decimals(number, n); no rounding when n is None
round_up_to_n_decimals(x, n) == IF n = None THEN x ELSE CeilTo(x, StepOf(Val(n)))

Lower(s) == CASE s = "A" -> "a" [] s = "B" -> "b" [] s = "C" -> "c" [] OTHER -> s

(***************************************************************************)
(* UniversalProcessor._calc_final_price, with the random draw d_price as   *)
(* an argument.  Returns the price (None for the unbounded short-circuit   *)
(* without an upper bound) and the applied_adj left on the payload.        *)
(***************************************************************************)
HasBand(p) == p.min_price_adjustment # None /\ p.max_price_adjustment # None

BandLow(p) == Min(Val(p.min_price_adjustment), Val(p.max_price_adjustment))

BandHigh(p) == Max(Val(p.min_price_adjustment), Val(p.max_price_adjustment))

\* the values random.uniform(min_adj, max_adj) is sampled at
Draws(p) == IF HasBand(p)
            THEN {BandLow(p), (BandLow(p) + BandHigh(p)) \div 2, BandHigh(p)}
            ELSE {0}

Clamp(p, price) ==
    LET lo == IF p.fetched_min_price # None THEN Max(price, Val(p.fetched_min_price)) ELSE price
    IN  IF p.fetched_max_price # None THEN Min(lo, Val(p.fetched_max_price)) ELSE lo

\* mutant: without an upper bound the calculator falls back to the floor
_calc_final_price_FloorFallback(p, price, d_price) ==
    LET base == IF price = None THEN p.fetched_max_price ELSE price
    IN  IF base = None
        THEN [price |-> p.fetched_min_price, applied_adj |-> 0]
        ELSE LET adjusted == IF HasBand(p) THEN Val(base) - d_price ELSE Val(base)
                 clamped == Clamp(p, adjusted)
             IN  [price |-> Some(IF p.price_rounding # None
                                 THEN round_up_to_n_decimals(clamped, p.price_rounding)
                                 ELSE clamped),
                  applied_adj |-> IF HasBand(p) THEN d_price ELSE 0]

\* mutant: applied_adj is not reset at entry
_calc_final_price_NoReset(p, price, d_price) ==
    LET base == IF price = None THEN p.fetched_max_price ELSE price
    IN  IF base = None
        THEN [price |-> p.fetched_max_price, applied_adj |-> p.applied_adj]
        ELSE LET adjusted == IF HasBand(p) THEN Val(base) - d_price ELSE Val(base)
                 clamped == Clamp(p, adjusted)
             IN  [price |-> Some(IF p.price_rounding # None
                                 THEN round_up_to_n_decimals(clamped, p.price_rounding)
                                 ELSE clamped),
                  applied_adj |-> IF HasBand(p) THEN d_price ELSE p.applied_adj]

\* mutant: the price is rounded before it is clamped
_calc_final_price_RoundThenClamp(p, price, d_price) ==
    LET base == IF price = None THEN p.fetched_max_price ELSE price
    IN  IF base = None
        THEN [price |-> p.fetched_max_price, applied_adj |-> 0]
        ELSE LET adjusted == IF HasBand(p) THEN Val(base) - d_price ELSE Val(base)
                 rounded == IF p.price_rounding # None
                            THEN round_up_to_n_decimals(adjusted, p.price_rounding)
                            ELSE adjusted
             IN  [price |-> Some(Clamp(p, rounded)),
                  applied_adj |-> IF HasBand(p) THEN d_price ELSE 0]

_calc_final_price(p, price, d_price) ==
    LET base == IF price = None THEN p.fetched_max_price ELSE price
    IN  IF base = None
        THEN [price |-> p.fetched_max_price, applied_adj |-> 0]
        ELSE LET adjusted == IF HasBand(p) THEN Val(base) - d_price ELSE Val(base)
                 clamped == Clamp(p, adjusted)
             IN  [price |-> Some(IF p.price_rounding # None
                                 THEN round_up_to_n_decimals(clamped, p.price_rounding)
                                 ELSE clamped),
                  applied_adj |-> IF HasBand(p) THEN d_price ELSE 0]

\* mutant: the price_rounding check is missing
_validate_payload_NoRoundingCheck(p) ==
    /\ p.product_name # None /\ Val(p.product_name) # ""
    /\ p.product_compare # None

_validate_payload(p) ==
    /\ p.product_name # None /\ Val(p.product_name) # ""
    /\ ~(p.price_rounding # None /\ Val(p.price_rounding) < 0)
    /\ p.product_compare # None

\* mutant: a difference equal to the threshold counts as significant
_is_price_diff_significant_AtLeast(price1, price2, p) ==
    LET step == IF p.price_rounding # None THEN StepOf(Val(p.price_rounding)) ELSE DefaultStep
        random_noise == IF HasBand(p)
                        THEN Abs(Val(p.max_price_adjustment) - Val(p.min_price_adjustment))
                        ELSE 0
        threshold2 == Max(2 * random_noise + step, 3 * step)
    IN  2 * Abs(price1 - price2) >= threshold2

\* mutant: the threshold is not raised to one and a half steps
_is_price_diff_significant_NoUnitFloor(price1, price2, p) ==
    LET step == IF p.price_rounding # None THEN StepOf(Val(p.price_rounding)) ELSE DefaultStep
        random_noise == IF HasBand(p)
                        THEN Abs(Val(p.max_price_adjustment) - Val(p.min_price_adjustment))
                        ELSE 0
        threshold2 == 2 * random_noise + step
    IN  2 * Abs(price1 - price2) > threshold2

\* |price1 - price2| > max(noise + step/2, 1.5 * step), both sides doubled
_is_price_diff_significant(price1, price2, p) ==
    LET step == IF p.price_rounding # None THEN StepOf(Val(p.price_rounding)) ELSE DefaultStep
        random_noise == IF HasBand(p)
                        THEN Abs(Val(p.max_price_adjustment) - Val(p.min_price_adjustment))
                        ELSE 0
        threshold2 == Max(2 * random_noise + step, 3 * step)
    IN  2 * Abs(price1 - price2) > threshold2

(***************************************************************************)
(* CompetitionAnalysisService.analyze_competition                          *)
(***************************************************************************)
\* mutant: the blacklist is matched case-sensitively
IsBlacklisted_CaseSensitive(p, offer) ==
    LET blacklist == IF p.fetched_black_list = None THEN {} ELSE Val(p.fetched_black_list)
    IN  \E seller \in blacklist : seller = offer.seller_name

IsBlacklisted(p, offer) ==
    LET blacklist == IF p.fetched_black_list = None THEN {} ELSE Val(p.fetched_black_list)
    IN  \E seller \in blacklist : Lower(seller) = Lower(offer.seller_name)

\* Python min(seq, key=price): the first offer of minimal price
FirstMin(seq) ==
    LET i == CHOOSE k \in 1..Len(seq) :
                 /\ \A j \in 1..Len(seq) : seq[k].price <= seq[j].price
                 /\ \A j \in 1..(k - 1) : seq[j].price > seq[k].price
    IN  seq[i]

\* mutant: the null result carries the filtered list
analyze_competition_FilteredLog(p, offers) ==
    LET NotBlack(o) == ~IsBlacklisted(p, o)
        filtered_offers == SelectSeq(offers, NotBlack)
        min_price_val == get_min_price_value(p)
        Below(o) == o.price < Val(min_price_val)
    IN  IF filtered_offers = <<>>
        THEN [competitor_name |-> None, competitive_price |-> None,
              top_sellers_for_log |-> filtered_offers, sellers_below_min |-> <<>>]
        ELSE [competitor_name |-> Some(FirstMin(filtered_offers).seller_name),
              competitive_price |-> Some(FirstMin(filtered_offers).price),
              top_sellers_for_log |-> offers,
              sellers_below_min |-> IF min_price_val # None
                                    THEN SelectSeq(offers, Below) ELSE <<>>]

analyze_competition(p, offers) ==
    LET NotBlack(o) == ~IsBlacklisted(p, o)
        filtered_offers == SelectSeq(offers, NotBlack)
        min_price_val == get_min_price_value(p)
        Below(o) == o.price < Val(min_price_val)
    IN  IF filtered_offers = <<>>
        THEN [competitor_name |-> None, competitive_price |-> None,
              top_sellers_for_log |-> offers, sellers_below_min |-> <<>>]
        ELSE [competitor_name |-> Some(FirstMin(filtered_offers).seller_name),
              competitive_price |-> Some(FirstMin(filtered_offers).price),
              top_sellers_for_log |-> offers,
              sellers_below_min |-> IF min_price_val # None
                                    THEN SelectSeq(offers, Below) ELSE <<>>]

(***************************************************************************)
(* PayloadResult and CompareTarget (src/models/logic_models.py).  A log    *)
(* message is a pair: the kind of message and the text it carries.         *)
(***************************************************************************)
PayloadResult(status, final_price, log_message, offer_id, offer_type, competition) ==
    [status |-> status, final_price |-> final_price, log_message |-> log_message,
     offer_id |-> offer_id, offer_type |-> offer_type, competition |-> competition]

CompareTarget(name, price) == [name |-> name, price |-> price]

\* pydantic rejects CompareTarget(name=None) and CompareTarget(price=None)
CompareTargetRaises(name, price) == name = None \/ price = None

ValidationError == "validation error for CompareTarget"

TypeError == "'<' not supported between instances of 'NoneType' and 'float'"

SubTypeError == "unsupported operand type(s) for -: 'float' and 'NoneType'"

\* mutant: the error text is dropped from the message
OnException_NoText(e) ==
    [status |-> 0, final_price |-> None, log_message |-> <<"Error", "">>,
     offer_id |-> None, offer_type |-> None, competition |-> None]

\* the except clause of process_single_payload
OnException(e) ==
    PayloadResult(0, None, <<"Error", e>>, None, None, None)

Raised(p, e) == [payload |-> p, raised |-> Some(e), result |-> OnException(e)]

Returned(p, r) == [payload |-> p, raised |-> None, result |-> r]

\* mutant: the hold decision is built without its log_message
HoldResult_NoLog(p, kind) ==
    [status |-> 2, final_price |-> None, log_message |-> None,
     offer_id |-> p.offer_id, offer_type |-> None, competition |-> None]

HoldResult(p, kind) ==
    PayloadResult(2, None, <<kind, "">>, p.offer_id, None, None)

\* the status=1 return of modes 1 and 2
UpdateResult(p, target_price, competitor_name, competitor_offers, offer_type) ==
    IF CompareTargetRaises(competitor_name, target_price)
    THEN Raised(p, ValidationError)
    ELSE Returned(p, PayloadResult(1, Some(CompareTarget(Val(competitor_name), Val(target_price))),
                                   <<"compare", "">>, p.offer_id, Some(offer_type),
                                   Some(competitor_offers)))

\* mutant: the floor is not rounded up
Mode0_Unrounded(p, offer_type) ==
    IF p.fetched_min_price = None
    THEN Returned(p, PayloadResult(0, None, <<"Mode 0: No Min Price", "">>, None, None, None))
    ELSE LET final_price == Val(p.fetched_min_price)
             q == [p EXCEPT !.applied_adj = 0]
         IN  IF ~_is_price_diff_significant(Val(q.current_price), final_price, q)
             THEN Returned(q, HoldResult(q, "equal"))
             ELSE Returned(q, PayloadResult(1, Some(CompareTarget("No Comparison", final_price)),
                                            <<"not_compare", "">>, q.offer_id,
                                            Some(offer_type), None))

\* MODE 0: NOT COMPARE; p carries current_price and offer_id
Mode0(p, offer_type) ==
    IF p.fetched_min_price = None
    THEN Returned(p, PayloadResult(0, None, <<"Mode 0: No Min Price", "">>, None, None, None))
    ELSE LET final_price == round_up_to_n_decimals(Val(p.fetched_min_price), p.price_rounding)
             q == [p EXCEPT !.applied_adj = 0]
         IN  IF ~_is_price_diff_significant(Val(q.current_price), final_price, q)
             THEN Returned(q, HoldResult(q, "equal"))
             ELSE Returned(q, PayloadResult(1, Some(CompareTarget("No Comparison", final_price)),
                                            <<"not_compare", "">>, q.offer_id,
                                            Some(offer_type), None))

\* mutant: the first offer is taken for the target, unfiltered and unsorted
PriceTarget_FirstOffer(p, competitor_offers, d_price) ==
    IF competitor_offers = <<>>
    THEN [calc |-> _calc_final_price(p, None, d_price),
          competitor_name |-> Some("No Competition")]
    ELSE [calc |-> _calc_final_price(p, Some(competitor_offers[1].price), d_price),
          competitor_name |-> Some(competitor_offers[1].seller_name)]

\* BUOC 2: the candidate price and the name of the target
PriceTarget(p, competitor_offers, d_price) ==
    IF competitor_offers = <<>>
    THEN [calc |-> _calc_final_price(p, None, d_price),
          competitor_name |-> Some("No Competition")]
    ELSE LET analysis_result == analyze_competition(p, competitor_offers)
         IN  [calc |-> _calc_final_price(p, analysis_result.competitive_price, d_price),
              competitor_name |-> analysis_result.competitor_name]

\* mutant: a candidate below the floor is let through
MinPriceProtection_NoBelowMin(p, target_price) ==
    LET min_price_value == get_min_price_value(p)
    IN  IF min_price_value # None
        THEN IF Val(p.current_price) < Val(min_price_value)
             THEN [kind |-> "force_min", target_price |-> min_price_value]
             ELSE [kind |-> "pass", target_price |-> target_price]
        ELSE [kind |-> "no_min_price", target_price |-> target_price]

\* mutant: a missing floor is let through
MinPriceProtection_NoFloorPass(p, target_price) ==
    LET min_price_value == get_min_price_value(p)
    IN  IF min_price_value # None
        THEN IF Val(p.current_price) < Val(min_price_value)
             THEN [kind |-> "force_min", target_price |-> min_price_value]
             ELSE IF target_price = None
             THEN [kind |-> "raise", target_price |-> target_price]
             ELSE IF Val(target_price) < Val(min_price_value)
             THEN [kind |-> "below_min", target_price |-> target_price]
             ELSE [kind |-> "pass", target_price |-> target_price]
        ELSE [kind |-> "pass", target_price |-> target_price]

\* BUOC 3: min price protection; kind is what the block does
MinPriceProtection(p, target_price) ==
    LET min_price_value == get_min_price_value(p)
    IN  IF min_price_value # None
        THEN IF Val(p.current_price) < Val(min_price_value)
             THEN [kind |-> "force_min", target_price |-> min_price_value]
             ELSE IF target_price = None
             THEN [kind |-> "raise", target_price |-> target_price]
             ELSE IF Val(target_price) < Val(min_price_value)
             THEN [kind |-> "below_min", target_price |-> target_price]
             ELSE [kind |-> "pass", target_price |-> target_price]
        ELSE [kind |-> "no_min_price", target_price |-> target_price]

\* MODE 1: always follow
Mode1(p, target_price, competitor_name, competitor_offers, offer_type) ==
    IF ~_is_price_diff_significant(Val(p.current_price), Val(target_price), p)
    THEN Returned(p, HoldResult(p, "equal"))
    ELSE UpdateResult(p, target_price, competitor_name, competitor_offers, offer_type)

\* mutant: the keep-price check is missing, mode 2 follows like mode 1
Mode2_Follows(p, target_price, competitor_name, competitor_offers, offer_type) ==
    IF ~_is_price_diff_significant(Val(p.current_price), Val(target_price), p)
    THEN Returned(p, HoldResult(p, "equal"))
    ELSE UpdateResult(p, target_price, competitor_name, competitor_offers, offer_type)

\* MODE 2: decrease only
Mode2(p, target_price, competitor_name, competitor_offers, offer_type) ==
    IF /\ Val(p.current_price) < Val(target_price)
       /\ _is_price_diff_significant(Val(p.current_price), Val(target_price), p)
    THEN Returned(p, HoldResult(p, "equal (Mode 2 - keep price)"))
    ELSE IF ~_is_price_diff_significant(Val(p.current_price), Val(target_price), p)
    THEN Returned(p, HoldResult(p, "equal"))
    ELSE UpdateResult(p, target_price, competitor_name, competitor_offers, offer_type)

\* mutant: every mode but 1 is taken for mode 2
ModeDispatch_ElseMode2(mode, p, target_price, competitor_name, competitor_offers, offer_type) ==
    IF target_price = None
    THEN Raised(p, SubTypeError)
    ELSE IF mode = 1
    THEN Mode1(p, target_price, competitor_name, competitor_offers, offer_type)
    ELSE Mode2(p, target_price, competitor_name, competitor_offers, offer_type)

\* abs(price1 - None) raises in the first comparison of modes 1 and 2
ModeDispatch(mode, p, target_price, competitor_name, competitor_offers, offer_type) ==
    IF mode \in {1, 2} /\ target_price = None
    THEN Raised(p, SubTypeError)
    ELSE IF mode = 1
    THEN Mode1(p, target_price, competitor_name, competitor_offers, offer_type)
    ELSE IF mode = 2
    THEN Mode2(p, target_price, competitor_name, competitor_offers, offer_type)
    ELSE Returned(p, PayloadResult(0, None, <<"Unknown Mode", "">>, None, None, None))

\* process_single_payload from the competitor offers to the decision
Compare(p, competitor_offers, d_price, offer_type) ==
    LET pt == PriceTarget(p, competitor_offers, d_price)
        p1 == [p EXCEPT !.applied_adj = pt.calc.applied_adj]
        prot == MinPriceProtection(p1, pt.calc.price)
        p2 == IF prot.kind = "force_min" THEN [p1 EXCEPT !.applied_adj = 0] ELSE p1
        out == IF prot.kind = "raise"
               THEN Raised(p2, TypeError)
               ELSE IF prot.kind \in {"below_min", "no_min_price"}
               THEN Returned(p2, PayloadResult(0, None, <<prot.kind, "">>, None, None, None))
               ELSE ModeDispatch(get_compare_mode(p2), p2, prot.target_price,
                                 pt.competitor_name, competitor_offers, offer_type)
    IN  [payload |-> out.payload, raised |-> out.raised, result |-> out.result,
         candidate |-> pt.calc.price, target_price |-> prot.target_price,
         competitor_name |-> pt.competitor_name]

(***************************************************************************)
(* One evaluation of process_single_payload as a state machine: the        *)
(* coroutine's positions are its two awaits on the marketplace adapter.    *)
(* candidate is target_price as _calc_final_price returned it, before the  *)
(* min price protection; args and ret are the arguments and the return     *)
(* value of a function called on its own (unused by the evaluation).       *)
(***************************************************************************)
VARIABLES pc, payload, calls, current_offer, competitor_offers, d_price,
          candidate, target_price, competitor_name, raised, result,
          args, ret

\* The state of run_automation and of its process_row_wrapper tasks
\* (src/main.py); pc is then the position of run_automation.
VARIABLES worker_semaphore, google_sheets_lock, processors, all_payloads,
          current_batch_num, tasks, sheet_ops, pushed

mainVars == <<worker_semaphore, google_sheets_lock, processors, all_payloads,
              current_batch_num, tasks, sheet_ops, pushed>>

evalVars == <<payload, calls, current_offer, competitor_offers, d_price,
              candidate, target_price, competitor_name, raised, result, args, ret>>

\* The state of an AuthHandler and of the get_auth_headers calls on it
\* (src/logic/auth.py); now is time.time().
VARIABLES _access_token, _token_expires_at, _lock, now, callers, token_requests

authVars == <<_access_token, _token_expires_at, _lock, now, callers, token_requests>>

vars == <<pc, evalVars, mainVars, authVars>>

\* no AuthHandler is in use
AuthIdle ==
    /\ _access_token = None
    /\ _token_expires_at = 0
    /\ _lock = 0
    /\ now = 0
    /\ callers = <<>>
    /\ token_requests = <<>>

\* run_automation is not running
MainIdle ==
    /\ worker_semaphore = 0
    /\ google_sheets_lock = 1
    /\ processors = {}
    /\ all_payloads = <<>>
    /\ current_batch_num = 0
    /\ tasks = <<>>
    /\ sheet_ops = {}
    /\ pushed = <<>>

\* a call of the marketplace adapter and what it answered
Call(name, reply) == [name |-> name, reply |-> reply]

Init ==
    /\ pc = "start"
    /\ payload \in Payloads
    /\ calls = <<>>
    /\ current_offer = None
    /\ competitor_offers = None
    /\ d_price = None
    /\ candidate = None
    /\ target_price = None
    /\ competitor_name = None
    /\ raised = None
    /\ result = None
    /\ args = None
    /\ ret = None
    /\ MainIdle
    /\ AuthIdle

\* 0. Validate Payload
Validate ==
    /\ pc = "start"
    /\ IF ~_validate_payload(payload)
       THEN /\ pc' = "done"
            /\ result' = Some(PayloadResult(0, None, <<"Payload validation failed.", "">>,
                                            None, None, None))
       ELSE /\ pc' = "get_my_offer_details"
            /\ UNCHANGED result
    /\ UNCHANGED <<payload, calls, current_offer, competitor_offers, d_price,
                   candidate, target_price, competitor_name, raised, args, ret>>
    /\ UNCHANGED <<mainVars, authVars>>

\* BUOC 1: the adapter raises, returns nothing, or returns the current offer
GetMyOfferRaises ==
    /\ pc = "get_my_offer_details"
    /\ \E e \in ErrorTexts :
          /\ raised' = Some(e)
          /\ result' = Some(OnException(e))
    /\ calls' = Append(calls, Call("get_my_offer_details", "raise"))
    /\ pc' = "done"
    /\ UNCHANGED <<payload, current_offer, competitor_offers, d_price,
                   candidate, target_price, competitor_name, args, ret>>
    /\ UNCHANGED <<mainVars, authVars>>

\* mutant: the absence is noticed only after the competitors were fetched
GetMyOfferNothing_FetchesOn ==
    /\ pc = "get_my_offer_details"
    /\ calls' = calls \o <<Call("get_my_offer_details", "nothing"),
                           Call("get_competitor_prices", "offers")>>
    /\ result' = Some(PayloadResult(0, None, <<"Fetch Current Details Failed", "">>,
                                    None, None, None))
    /\ pc' = "done"
    /\ UNCHANGED <<payload, current_offer, competitor_offers, d_price,
                   candidate, target_price, competitor_name, raised, args, ret>>
    /\ UNCHANGED <<mainVars, authVars>>

GetMyOfferNothing ==
    /\ pc = "get_my_offer_details"
    /\ calls' = Append(calls, Call("get_my_offer_details", "nothing"))
    /\ result' = Some(PayloadResult(0, None, <<"Fetch Current Details Failed", "">>,
                                    None, None, None))
    /\ pc' = "done"
    /\ UNCHANGED <<payload, current_offer, competitor_offers, d_price,
                   candidate, target_price, competitor_name, raised, args, ret>>
    /\ UNCHANGED <<mainVars, authVars>>

GetMyOffer ==
    /\ pc = "get_my_offer_details"
    /\ calls' = Append(calls, Call("get_my_offer_details", "offer"))
    /\ \E offer \in StandardCurrentOffer :
          LET p == [payload EXCEPT !.current_price = Some(offer.price),
                                   !.offer_id = Some(offer.offer_id)]
          IN  /\ current_offer' = Some(offer)
              /\ IF get_compare_mode(p) = 0
                 THEN /\ payload' = Mode0(p, offer.offer_type).payload
                      /\ result' = Some(Mode0(p, offer.offer_type).result)
                      /\ pc' = "done"
                 ELSE /\ payload' = p
                      /\ UNCHANGED result
                      /\ pc' = "get_competitor_prices"
    /\ UNCHANGED <<competitor_offers, d_price, candidate, target_price, competitor_name,
                   raised, args, ret>>
    /\ UNCHANGED <<mainVars, authVars>>

\* BUOC 2..: the adapter raises, or returns the offers and the pass ends
\* mutant: a failed competitor fetch is repeated once
GetCompetitorPricesRaises_RetryOnce ==
    /\ pc = "get_competitor_prices"
    /\ \E e \in ErrorTexts :
          /\ raised' = Some(e)
          /\ result' = Some(OnException(e))
    /\ calls' = calls \o <<Call("get_competitor_prices", "raise"),
                           Call("get_competitor_prices", "raise")>>
    /\ pc' = "done"
    /\ UNCHANGED <<payload, current_offer, competitor_offers, d_price,
                   candidate, target_price, competitor_name, args, ret>>
    /\ UNCHANGED <<mainVars, authVars>>

GetCompetitorPricesRaises ==
    /\ pc = "get_competitor_prices"
    /\ \E e \in ErrorTexts :
          /\ raised' = Some(e)
          /\ result' = Some(OnException(e))
    /\ calls' = Append(calls, Call("get_competitor_prices", "raise"))
    /\ pc' = "done"
    /\ UNCHANGED <<payload, current_offer, competitor_offers, d_price,
                   candidate, target_price, competitor_name, args, ret>>
    /\ UNCHANGED <<mainVars, authVars>>

GetCompetitorPrices ==
    /\ pc = "get_competitor_prices"
    /\ calls' = Append(calls, Call("get_competitor_prices", "offers"))
    /\ \E offers \in OfferLists, d \in Draws(payload) :
          LET out == Compare(payload, offers, d, Val(current_offer).offer_type)
          IN  /\ competitor_offers' = Some(offers)
              /\ d_price' = Some(d)
              /\ payload' = out.payload
              /\ candidate' = out.candidate
              /\ target_price' = out.target_price
              /\ competitor_name' = out.competitor_name
              /\ raised' = out.raised
              /\ result' = Some(out.result)
    /\ pc' = "done"
    /\ UNCHANGED <<current_offer, args, ret>>
    /\ UNCHANGED <<mainVars, authVars>>

Next ==
    \/ Validate
    \/ GetMyOfferRaises
    \/ GetMyOfferNothing
    \/ GetMyOffer
    \/ GetCompetitorPricesRaises
    \/ GetCompetitorPrices

Spec == Init /\ [][Next]_vars

\* every await of the evaluation on the adapter is answered (by a value or by
\* an exception), so a step that is possible is eventually taken
FairSpec == Spec /\ WF_vars(Next)

(***************************************************************************)
(* _calc_final_price called on its own: any payload (with whatever         *)
(* applied_adj an earlier calculation left on it) and any candidate price. *)
(***************************************************************************)
CalcAdjustments == {None, Some(-20), Some(10), Some(40)}
CalcRoundings == {None, Some(0), Some(2)}
CalcMinPrices == {None, Some(5000)}
CalcMaxPrices == {None, Some(4500), Some(8500), Some(8505)}
CalcPrices == {None, Some(4800), Some(8000), Some(8503), Some(9000)}
StaleAdjs == {0, 25}

CalcPayloads ==
    {[product_name |-> Some("Elden Ring"),
      product_compare |-> Some("700583"),
      price_rounding |-> rounding,
      compare_mode |-> 1,
      min_price_adjustment |-> a,
      max_price_adjustment |-> b,
      fetched_min_price |-> lo,
      fetched_max_price |-> hi,
      fetched_black_list |-> None,
      current_price |-> None,
      offer_id |-> None,
      applied_adj |-> adj] :
        rounding \in CalcRoundings, a \in CalcAdjustments, b \in CalcAdjustments,
        lo \in CalcMinPrices, hi \in CalcMaxPrices, adj \in StaleAdjs}

\* the variables of the evaluation, idle while a function is called on its own
Idle ==
    /\ calls = <<>>
    /\ current_offer = None
    /\ competitor_offers = None
    /\ candidate = None
    /\ target_price = None
    /\ competitor_name = None
    /\ raised = None
    /\ result = None

InitCalc ==
    /\ pc = "calc_call"
    /\ payload \in CalcPayloads
    /\ \E price \in CalcPrices : args = [payload |-> payload, price |-> price]
    /\ ret = None
    /\ d_price = None
    /\ Idle
    /\ MainIdle
    /\ AuthIdle

CallCalcFinalPrice ==
    /\ pc = "calc_call"
    /\ \E d \in Draws(payload) :
          LET out == _calc_final_price(payload, args.price, d)
              drawn == HasBand(payload) /\ ~(args.price = None /\ payload.fetched_max_price = None)
          IN  /\ payload' = [payload EXCEPT !.applied_adj = out.applied_adj]
              /\ d_price' = IF drawn THEN Some(d) ELSE None
              /\ ret' = [value |-> out.price]
    /\ pc' = "calc_return"
    /\ UNCHANGED <<calls, current_offer, competitor_offers, candidate, target_price,
                   competitor_name, raised, result, args>>
    /\ UNCHANGED <<mainVars, authVars>>

NextCalc == CallCalcFinalPrice

SpecCalc == InitCalc /\ [][NextCalc]_vars

(***************************************************************************)
(* _is_price_diff_significant called on its own.                           *)
(***************************************************************************)
SigPrices == {1000, 1005, 1010, 1015, 1020, 1100, 2000}
SigRoundings == {None, Some(0), Some(1), Some(2), Some(3)}
SigBands == {<<None, None>>, <<Some(10), None>>, <<Some(10), Some(40)>>,
             <<Some(40), Some(10)>>, <<Some(-20), Some(-15)>>}

SigPayloads ==
    {[product_name |-> Some("Elden Ring"),
      product_compare |-> Some("700583"),
      price_rounding |-> rounding,
      compare_mode |-> 1,
      min_price_adjustment |-> band[1],
      max_price_adjustment |-> band[2],
      fetched_min_price |-> None,
      fetched_max_price |-> None,
      fetched_black_list |-> None,
      current_price |-> None,
      offer_id |-> None,
      applied_adj |-> 0] :
        rounding \in SigRoundings, band \in SigBands}

InitSignificant ==
    /\ pc = "sig_call"
    /\ payload \in SigPayloads
    /\ \E price1 \in SigPrices, price2 \in SigPrices :
          args = [payload |-> payload, price1 |-> price1, price2 |-> price2]
    /\ ret = None
    /\ d_price = None
    /\ Idle
    /\ MainIdle
    /\ AuthIdle

CallIsPriceDiffSignificant ==
    /\ pc = "sig_call"
    /\ ret' = [value |-> _is_price_diff_significant(args.price1, args.price2, payload)]
    /\ pc' = "sig_return"
    /\ UNCHANGED <<payload, calls, current_offer, competitor_offers, d_price, candidate,
                   target_price, competitor_name, raised, result, args>>
    /\ UNCHANGED <<mainVars, authVars>>

NextSignificant == CallIsPriceDiffSignificant

SpecSignificant == InitSignificant /\ [][NextSignificant]_vars

(***************************************************************************)
(* analyze_competition called on its own, on any list of offers.           *)
(***************************************************************************)
MaxAnalyzeOffers == 3

AnalyzeSellers == {"A", "B", "C"}
AnalyzePrices == {8000, 9000, 10000}
AnalyzeBlackLists == {None, Some({}), Some({"B"}), Some({"b"}), Some({"a", "C"}),
                      Some({"A", "b", "c"})}
AnalyzeMinPrices == {None, Some(8500), Some(12000)}

AnalyzeOffers == [seller_name : AnalyzeSellers, price : AnalyzePrices]

AnalyzeOfferLists == UNION {[1..n -> AnalyzeOffers] : n \in 0..MaxAnalyzeOffers}

AnalyzePayloads ==
    {[product_name |-> Some("Elden Ring"),
      product_compare |-> Some("700583"),
      price_rounding |-> None,
      compare_mode |-> 1,
      min_price_adjustment |-> None,
      max_price_adjustment |-> None,
      fetched_min_price |-> lo,
      fetched_max_price |-> None,
      fetched_black_list |-> blacklist,
      current_price |-> None,
      offer_id |-> None,
      applied_adj |-> 0] :
        lo \in AnalyzeMinPrices, blacklist \in AnalyzeBlackLists}

InitAnalyze ==
    /\ pc = "analyze_call"
    /\ payload \in AnalyzePayloads
    /\ \E offers \in AnalyzeOfferLists : args = [payload |-> payload, offers |-> offers]
    /\ ret = None
    /\ d_price = None
    /\ Idle
    /\ MainIdle
    /\ AuthIdle

CallAnalyzeCompetition ==
    /\ pc = "analyze_call"
    /\ ret' = [value |-> analyze_competition(payload, args.offers)]
    /\ pc' = "analyze_return"
    /\ UNCHANGED <<payload, calls, current_offer, competitor_offers, d_price, candidate,
                   target_price, competitor_name, raised, result, args>>
    /\ UNCHANGED <<mainVars, authVars>>

NextAnalyze == CallAnalyzeCompetition

SpecAnalyze == InitAnalyze /\ [][NextAnalyze]_vars

(***************************************************************************)
(* run_automation and its process_row_wrapper tasks (src/main.py).         *)
(* asyncio runs one coroutine at a time and switches only at an await: a   *)
(* task takes a step only while run_automation waits, and each action is   *)
(* the code from one await to the next.  A semaphore with a free permit is *)
(* acquired without waiting.                                               *)
(***************************************************************************)
CONCURRENT_WORKERS == 2
MaxRows == 3

batch_size == CONCURRENT_WORKERS

RelaxValues == {None, Some(0), Some(2)}

\* what get_payloads_to_process may return
PayloadLists ==
    UNION {{[r \in 1..n |-> [row_index |-> r, relax |-> relax[r]]] :
                relax \in [1..n -> RelaxValues]} : n \in 0..MaxRows}

\* the decisions process_single_payload may return to the wrapper
RowResults ==
    {PayloadResult(0, None, <<"below_min", "">>, None, None, None),
     PayloadResult(2, None, <<"equal", "">>, Some("700583"), None, None),
     PayloadResult(1, Some(CompareTarget("A", 8000)), <<"compare", "">>,
                   Some("700583"), Some("key"), None),
     PayloadResult(1, Some(CompareTarget("No Comparison", 5000)), <<"not_compare", "">>,
                   Some(""), Some("key"), None)}

\* a task that was not created yet
NoTask == [pc |-> "none", result |-> None, sent |-> <<>>, log_data |-> None,
           returned |-> None]

\* batch_payloads = all_payloads[i: i + batch_size], as row numbers
BatchRows(k) ==
    {r \in 1..Len(all_payloads) : (k - 1) * batch_size < r /\ r <= k * batch_size}

\* run_automation is suspended in an await
MainAwaits ==
    \/ pc \in {"get_payloads_to_process", "gather", "batch_update_logs"}
    \/ pc = "spawn" /\ worker_semaphore = 0

\* mutant: the offer id is not looked at
ShouldUpdate_NoOfferId(r) ==
    r.status = 1 /\ r.final_price # None

\* the condition of step 4
ShouldUpdate(r) ==
    r.status = 1 /\ r.final_price # None /\ r.offer_id \notin {None, Some("")}

\* mutant: a skipped row gets no log_data
SkipLog_Nothing(r) == None

\* log_data of a row that is not updated (status 0 or 2)
SkipLog(r) == Some(<<r.log_message[1], "">>)

\* log_data after update_price returned
UpdateLog(r, update_successful) ==
    IF update_successful
    THEN Some(<<r.log_message[1], "">>)
    ELSE Some(<<r.log_message[1], "ERROR: API update call failed.">>)

\* mutant: the task ends without releasing its permit
Return_NoRelease(r, t, value) ==
    /\ tasks' = [tasks EXCEPT ![r] = [t EXCEPT !.pc = "done", !.returned = value]]
    /\ UNCHANGED worker_semaphore

\* the task returns value; finally: worker_semaphore.release()
Return(r, t, value) ==
    /\ tasks' = [tasks EXCEPT ![r] = [t EXCEPT !.pc = "done", !.returned = value]]
    /\ worker_semaphore' = worker_semaphore + 1

\* mutant: a task that ends in an exception keeps its permit
ReturnError_NoRelease(r, t) ==
    /\ tasks' = [tasks EXCEPT ![r] = [t EXCEPT !.pc = "done",
                    !.returned = Some([row |-> r, note |-> <<"Error: e", "">>])]]
    /\ UNCHANGED worker_semaphore

\* except Exception as e
ReturnError(r, t) ==
    Return(r, t, Some([row |-> r, note |-> <<"Error: e", "">>]))

\* return (payload, log_data) if log_data else None
RowEntry(r, t) ==
    IF t.log_data # None THEN Some([row |-> r, note |-> Val(t.log_data)]) ELSE None

\* 5. Logic Relax, and the return of the row's entry
Relax(r, t) ==
    IF all_payloads[r].relax # None /\ Val(all_payloads[r].relax) > 0
    THEN /\ tasks' = [tasks EXCEPT ![r] = [t EXCEPT !.pc = "sleep"]]
         /\ UNCHANGED worker_semaphore
    ELSE Return(r, t, RowEntry(r, t))

\* mutant: the sheet is read without the lock
EnterLock_NoLock(r, t) ==
    /\ sheet_ops' = sheet_ops \cup {<<"fetch_data_for_payload", r>>}
    /\ tasks' = [tasks EXCEPT ![r] = [t EXCEPT !.pc = "fetch_data_for_payload"]]
    /\ UNCHANGED google_sheets_lock

\* async with google_sheets_lock: the read starts, or the task waits
EnterLock(r, t) ==
    IF google_sheets_lock > 0
    THEN /\ google_sheets_lock' = google_sheets_lock - 1
         /\ sheet_ops' = sheet_ops \cup {<<"fetch_data_for_payload", r>>}
         /\ tasks' = [tasks EXCEPT ![r] = [t EXCEPT !.pc = "fetch_data_for_payload"]]
    ELSE /\ tasks' = [tasks EXCEPT ![r] = [t EXCEPT !.pc = "google_sheets_lock"]]
         /\ UNCHANGED <<google_sheets_lock, sheet_ops>>

InitMain ==
    /\ pc = "run_automation"
    /\ worker_semaphore = CONCURRENT_WORKERS
    /\ google_sheets_lock = 1
    /\ processors \in {{"driffle"}, {}}
    /\ all_payloads = <<>>
    /\ current_batch_num = 0
    /\ tasks = <<>>
    /\ sheet_ops = {}
    /\ pushed = <<>>
    /\ payload = None
    /\ args = None
    /\ ret = None
    /\ d_price = None
    /\ Idle
    /\ AuthIdle

\* run_automation up to its first await
RunAutomation ==
    /\ pc = "run_automation"
    /\ worker_semaphore' = CONCURRENT_WORKERS
    /\ sheet_ops' = sheet_ops \cup {<<"get_payloads_to_process", 0>>}
    /\ pc' = "get_payloads_to_process"
    /\ UNCHANGED <<google_sheets_lock, processors, all_payloads, current_batch_num,
                   tasks, pushed, evalVars, authVars>>

GetPayloadsReturns ==
    /\ pc = "get_payloads_to_process"
    /\ sheet_ops' = sheet_ops \ {<<"get_payloads_to_process", 0>>}
    /\ \E rows \in PayloadLists :
          /\ all_payloads' = rows
          /\ tasks' = [r \in 1..Len(rows) |-> NoTask]
          /\ IF rows = <<>>
             THEN pc' = "return" /\ UNCHANGED current_batch_num
             ELSE pc' = "spawn" /\ current_batch_num' = 1
    /\ UNCHANGED <<worker_semaphore, google_sheets_lock, processors, pushed, evalVars, authVars>>

GetPayloadsRaises ==
    /\ pc = "get_payloads_to_process"
    /\ sheet_ops' = sheet_ops \ {<<"get_payloads_to_process", 0>>}
    /\ pc' = "return"
    /\ UNCHANGED <<worker_semaphore, google_sheets_lock, processors, all_payloads,
                   current_batch_num, tasks, pushed, evalVars, authVars>>

\* one turn of the loop over batch_payloads: acquire, create_task
CreateTask ==
    /\ pc = "spawn"
    /\ worker_semaphore > 0
    /\ LET pending == {r \in BatchRows(current_batch_num) : tasks[r].pc = "none"}
           payload_r == CHOOSE r \in pending : \A q \in pending : r <= q
       IN  /\ pending # {}
           /\ worker_semaphore' = worker_semaphore - 1
           /\ tasks' = [tasks EXCEPT ![payload_r].pc = "created"]
           /\ pc' = IF pending = {payload_r} THEN "gather" ELSE "spawn"
    /\ UNCHANGED <<google_sheets_lock, processors, all_payloads, current_batch_num,
                   sheet_ops, pushed, evalVars, authVars>>

\* the end of a batch: the next slice of all_payloads, or the end of the round
NextBatch ==
    IF current_batch_num * batch_size < Len(all_payloads)
    THEN current_batch_num' = current_batch_num + 1 /\ pc' = "spawn"
    ELSE pc' = "return" /\ UNCHANGED current_batch_num

\* mutant: the writeback follows the first finished task
GatherReturns_FirstCompleted ==
    /\ pc = "gather"
    /\ \E r \in BatchRows(current_batch_num) : tasks[r].pc = "done"
    /\ LET first == (current_batch_num - 1) * batch_size
           results == [j \in 1..Cardinality(BatchRows(current_batch_num)) |->
                           tasks[first + j].returned]
           NotNone(res) == res # None
           somes == SelectSeq(results, NotNone)
           updates_to_push == [j \in 1..Len(somes) |-> Val(somes[j])]
       IN  IF updates_to_push # <<>>
           THEN /\ pushed' = Append(pushed, [batch |-> current_batch_num,
                                             updates |-> updates_to_push,
                                             completed |-> FALSE])
                /\ sheet_ops' = sheet_ops \cup {<<"batch_update_logs", current_batch_num>>}
                /\ pc' = "batch_update_logs"
                /\ UNCHANGED current_batch_num
           ELSE /\ NextBatch
                /\ UNCHANGED <<pushed, sheet_ops>>
    /\ UNCHANGED <<worker_semaphore, google_sheets_lock, processors, all_payloads,
                   tasks, evalVars, authVars>>

\* gather returns when every task of the batch has; the writeback is issued
GatherReturns ==
    /\ pc = "gather"
    /\ \A r \in BatchRows(current_batch_num) : tasks[r].pc = "done"
    /\ LET first == (current_batch_num - 1) * batch_size
           results == [j \in 1..Cardinality(BatchRows(current_batch_num)) |->
                           tasks[first + j].returned]
           NotNone(res) == res # None
           somes == SelectSeq(results, NotNone)
           updates_to_push == [j \in 1..Len(somes) |-> Val(somes[j])]
       IN  IF updates_to_push # <<>>
           THEN /\ pushed' = Append(pushed, [batch |-> current_batch_num,
                                             updates |-> updates_to_push,
                                             completed |-> FALSE])
                /\ sheet_ops' = sheet_ops \cup {<<"batch_update_logs", current_batch_num>>}
                /\ pc' = "batch_update_logs"
                /\ UNCHANGED current_batch_num
           ELSE /\ NextBatch
                /\ UNCHANGED <<pushed, sheet_ops>>
    /\ UNCHANGED <<worker_semaphore, google_sheets_lock, processors, all_payloads,
                   tasks, evalVars, authVars>>

BatchUpdateLogsReturns ==
    /\ pc = "batch_update_logs"
    /\ sheet_ops' = sheet_ops \ {<<"batch_update_logs", current_batch_num>>}
    /\ pushed' = [pushed EXCEPT ![Len(pushed)].completed = TRUE]
    /\ NextBatch
    /\ UNCHANGED <<worker_semaphore, google_sheets_lock, processors, all_payloads,
                   tasks, evalVars, authVars>>

\* except Exception in run_automation: the round ends
BatchUpdateLogsRaises ==
    /\ pc = "batch_update_logs"
    /\ sheet_ops' = sheet_ops \ {<<"batch_update_logs", current_batch_num>>}
    /\ pc' = "return"
    /\ UNCHANGED <<worker_semaphore, google_sheets_lock, processors, all_payloads,
                   current_batch_num, tasks, pushed, evalVars, authVars>>

\* main: the next round calls run_automation again, with the same lock
NewRound ==
    /\ pc = "return"
    /\ pc' = "run_automation"
    /\ worker_semaphore' = CONCURRENT_WORKERS
    /\ all_payloads' = <<>>
    /\ current_batch_num' = 0
    /\ tasks' = <<>>
    /\ pushed' = <<>>
    /\ UNCHANGED <<google_sheets_lock, processors, sheet_ops, evalVars, authVars>>

\* process_row_wrapper up to its first await
StartRow(r) ==
    /\ MainAwaits
    /\ tasks[r].pc = "created"
    /\ IF "driffle" \notin processors
       THEN /\ Return(r, tasks[r], Some([row |-> r,
                                         note |-> <<"Error: Config missing for driffle", "">>]))
            /\ UNCHANGED <<google_sheets_lock, sheet_ops>>
       ELSE /\ EnterLock(r, tasks[r])
            /\ UNCHANGED worker_semaphore
    /\ UNCHANGED <<pc, processors, all_payloads, current_batch_num, pushed, evalVars, authVars>>

\* a task waiting for google_sheets_lock gets it
LockGranted(r) ==
    /\ MainAwaits
    /\ tasks[r].pc = "google_sheets_lock"
    /\ google_sheets_lock > 0
    /\ EnterLock(r, tasks[r])
    /\ UNCHANGED <<pc, worker_semaphore, processors, all_payloads, current_batch_num,
                   pushed, evalVars, authVars>>

FetchDataReturns(r) ==
    /\ MainAwaits
    /\ tasks[r].pc = "fetch_data_for_payload"
    /\ sheet_ops' = sheet_ops \ {<<"fetch_data_for_payload", r>>}
    /\ google_sheets_lock' = google_sheets_lock + 1
    /\ tasks' = [tasks EXCEPT ![r].pc = "get_pid_by_offer_id"]
    /\ UNCHANGED <<pc, worker_semaphore, processors, all_payloads, current_batch_num,
                   pushed, evalVars, authVars>>

FetchDataRaises(r) ==
    /\ MainAwaits
    /\ tasks[r].pc = "fetch_data_for_payload"
    /\ sheet_ops' = sheet_ops \ {<<"fetch_data_for_payload", r>>}
    /\ google_sheets_lock' = google_sheets_lock + 1
    /\ ReturnError(r, tasks[r])
    /\ UNCHANGED <<pc, processors, all_payloads, current_batch_num, pushed, evalVars, authVars>>

GetPidReturns(r) ==
    /\ MainAwaits
    /\ tasks[r].pc = "get_pid_by_offer_id"
    /\ tasks' = [tasks EXCEPT ![r].pc = "process_single_payload"]
    /\ UNCHANGED <<pc, worker_semaphore, google_sheets_lock, processors, all_payloads,
                   current_batch_num, sheet_ops, pushed, evalVars, authVars>>

GetPidRaises(r) ==
    /\ MainAwaits
    /\ tasks[r].pc = "get_pid_by_offer_id"
    /\ ReturnError(r, tasks[r])
    /\ UNCHANGED <<pc, google_sheets_lock, processors, all_payloads, current_batch_num,
                   sheet_ops, pushed, evalVars, authVars>>

\* the decision arrives; 4. update_price is called, or the row is skipped
ProcessReturns(r) ==
    /\ MainAwaits
    /\ tasks[r].pc = "process_single_payload"
    /\ \E res \in RowResults :
          LET t == [tasks[r] EXCEPT !.result = Some(res)]
          IN  IF ShouldUpdate(res)
              THEN /\ tasks' = [tasks EXCEPT ![r] =
                                  [t EXCEPT !.pc = "update_price",
                                            !.sent = Append(t.sent,
                                                [offer_id |-> res.offer_id,
                                                 new_price |-> Val(res.final_price).price])]]
                   /\ UNCHANGED worker_semaphore
              ELSE Relax(r, [t EXCEPT !.log_data = SkipLog(res)])
    /\ UNCHANGED <<pc, google_sheets_lock, processors, all_payloads, current_batch_num,
                   sheet_ops, pushed, evalVars, authVars>>

UpdatePriceReturns(r) ==
    /\ MainAwaits
    /\ tasks[r].pc = "update_price"
    /\ \E update_successful \in BOOLEAN :
          Relax(r, [tasks[r] EXCEPT
                      !.log_data = UpdateLog(Val(tasks[r].result), update_successful)])
    /\ UNCHANGED <<pc, google_sheets_lock, processors, all_payloads, current_batch_num,
                   sheet_ops, pushed, evalVars, authVars>>

SleepReturns(r) ==
    /\ MainAwaits
    /\ tasks[r].pc = "sleep"
    /\ Return(r, tasks[r], RowEntry(r, tasks[r]))
    /\ UNCHANGED <<pc, google_sheets_lock, processors, all_payloads, current_batch_num,
                   sheet_ops, pushed, evalVars, authVars>>

NextMain ==
    \/ RunAutomation
    \/ GetPayloadsReturns
    \/ GetPayloadsRaises
    \/ CreateTask
    \/ GatherReturns
    \/ BatchUpdateLogsReturns
    \/ BatchUpdateLogsRaises
    \/ NewRound
    \/ \E r \in 1..Len(tasks) : StartRow(r)
    \/ \E r \in 1..Len(tasks) : LockGranted(r)
    \/ \E r \in 1..Len(tasks) : FetchDataReturns(r)
    \/ \E r \in 1..Len(tasks) : FetchDataRaises(r)
    \/ \E r \in 1..Len(tasks) : GetPidReturns(r)
    \/ \E r \in 1..Len(tasks) : GetPidRaises(r)
    \/ \E r \in 1..Len(tasks) : ProcessReturns(r)
    \/ \E r \in 1..Len(tasks) : UpdatePriceReturns(r)
    \/ \E r \in 1..Len(tasks) : SleepReturns(r)

SpecMain == InitMain /\ [][NextMain]_vars

\* every await of a round is answered: the spreadsheet and marketplace calls
\* return or raise (the HTTP client has a timeout) and every sleep ends
FairSpecMain == SpecMain /\ WF_vars(NextMain)

(***************************************************************************)
(* DriffleServiceAdapter (src/services/driffle_adapter.py) under the       *)
(* engine: one evaluation whose two awaits are answered by the adapter     *)
(* from what the Driffle client answered, followed by the update_price     *)
(* call of the row's task.  A client call raises, returns nothing, or      *)
(* returns a response.  An adapter method answers [raised, value]: raised  *)
(* is the exception that leaves the method, None if it returns value.      *)
(***************************************************************************)
MaxItems == 2
COMMISSION_PRICES == 8

AdapterProductCompares == {Some("700583"), Some("abc"), Some("0")}
YourPrices == {4000, 7000}
RetailPrices == {5000, 9000}

\* int(s): None where int raises ValueError
IntOf(s) ==
    CASE s = "700583" -> Some(700583)
      [] s = "0" -> Some(0)
      [] OTHER -> None

\* str(n)
StrOf(n) ==
    CASE n = 700583 -> "700583"
      [] n = 0 -> "0"

\* round(retail_price * 0.88, 2), prices in thousandths
FallbackBase(retail_price) == ((retail_price * 88 + 500) \div 1000) * 10

AdapterPayloads ==
    {[product_name |-> Some("Elden Ring"),
      product_compare |-> compare,
      price_rounding |-> rounding,
      compare_mode |-> mode,
      min_price_adjustment |-> Some(10),
      max_price_adjustment |-> Some(40),
      fetched_min_price |-> lo,
      fetched_max_price |-> hi,
      fetched_black_list |-> black,
      current_price |-> None,
      offer_id |-> None,
      applied_adj |-> 0] :
        compare \in AdapterProductCompares, rounding \in {None, Some(1)},
        mode \in 0..2, lo \in {None, Some(5000)}, hi \in {None, Some(8500)},
        black \in BlackLists}

\* what client.get_offer_details answered
OfferDetailReplies ==
    {[kind |-> k, offerId |-> 0, yourPrice |-> 0] :
        k \in {"raise", "none", "no_data", "no_offer"}}
    \cup {[kind |-> "offer", offerId |-> 700583, yourPrice |-> y] : y \in YourPrices}

\* the offers of a competitions response
CompetitionOffer ==
    {[merchantName |-> "A", amount |-> 5000, belongsToYou |-> FALSE,
      isInStock |-> TRUE, canBePurchased |-> TRUE],
     [merchantName |-> "B", amount |-> 9000, belongsToYou |-> FALSE,
      isInStock |-> TRUE, canBePurchased |-> TRUE],
     [merchantName |-> "A", amount |-> 9000, belongsToYou |-> TRUE,
      isInStock |-> TRUE, canBePurchased |-> TRUE],
     [merchantName |-> "B", amount |-> 5000, belongsToYou |-> FALSE,
      isInStock |-> FALSE, canBePurchased |-> TRUE],
     [merchantName |-> "B", amount |-> 5000, belongsToYou |-> FALSE,
      isInStock |-> TRUE, canBePurchased |-> FALSE]}

\* what client.get_product_competitions answered
CompetitionReplies ==
    {[kind |-> k, offers |-> <<>>] : k \in {"raise", "none", "no_competitions"}}
    \cup {[kind |-> "offers", offers |-> offers] :
            offers \in UNION {[1..n -> CompetitionOffer] : n \in 0..MaxItems}}

\* what client.calculate_commission answers for each retail price
CommissionReply ==
    {[kind |-> "raise", amount |-> 0], [kind |-> "none", amount |-> 0],
     [kind |-> "amount", amount |-> 4800], [kind |-> "amount", amount |-> 8000]}

CommissionReplies == [RetailPrices -> CommissionReply]

\* what client.update_offer answered
UpdateOfferReplies ==
    {[kind |-> "raise", statusCode |-> 0], [kind |-> "none", statusCode |-> 0],
     [kind |-> "response", statusCode |-> 200], [kind |-> "response", statusCode |-> 400]}

get_my_offer_details(offer_id, reply) ==
    IF \/ offer_id = None
       \/ IntOf(Val(offer_id)) = None
       \/ reply.kind = "raise"
    THEN [raised |-> None, value |-> None]
    ELSE IF reply.kind \in {"none", "no_data", "no_offer"}
    THEN [raised |-> None, value |-> None]
    ELSE [raised |-> None,
          value |-> Some([offer_id |-> StrOf(reply.offerId), price |-> reply.yourPrice,
                          offer_type |-> "key"])]

\* the n smallest elements of S
Smallest(S, n) == {x \in S : Cardinality({y \in S : y < x}) < n}

\* the offers get_competitor_prices builds from a competitions response
StandardOffers(items, min_price, max_price, commission) ==
    LET limit_min_base == IF min_price # None THEN Val(min_price) ELSE 0
        Listed(item) == ~(item.belongsToYou \/ ~item.isInStock \/ ~item.canBePurchased)
        raw == SelectSeq(items, Listed)
        potential_retail_prices ==
            {raw[i].amount : i \in {j \in 1..Len(raw) : raw[j].amount >= limit_min_base}}
        sorted_retail_prices == Smallest(potential_retail_prices, COMMISSION_PRICES)
        price_map(retail) ==
            IF commission[retail].kind = "amount"
            THEN commission[retail].amount
            ELSE FallbackBase(retail)
        InRange(base) ==
            /\ limit_min_base <= base
            /\ max_price # None => base <= Val(max_price)
        Kept(item) == item.amount < limit_min_base \/ item.amount \in sorted_retail_prices
        kept == SelectSeq(raw, Kept)
    IN  [i \in 1..Len(kept) |->
            IF kept[i].amount < limit_min_base
            THEN [seller_name |-> kept[i].merchantName, price |-> kept[i].amount,
                  is_eligible |-> FALSE]
            ELSE [seller_name |-> kept[i].merchantName, price |-> price_map(kept[i].amount),
                  is_eligible |-> InRange(price_map(kept[i].amount))]]

\* mutant: an exception of the client leaves get_competitor_prices
get_competitor_prices_NoCatch(product_compare, min_price, max_price, reply, commission) ==
    IF reply.kind = "raise"
    THEN [raised |-> Some("adapter timeout"), value |-> <<>>]
    ELSE IF product_compare = None \/ IntOf(Val(product_compare)) \in {None, Some(0)}
            \/ reply.kind \in {"none", "no_competitions"}
    THEN [raised |-> None, value |-> <<>>]
    ELSE [raised |-> None,
          value |-> StandardOffers(reply.offers, min_price, max_price, commission)]

get_competitor_prices(product_compare, min_price, max_price, reply, commission) ==
    IF product_compare = None \/ IntOf(Val(product_compare)) = None
    THEN [raised |-> None, value |-> <<>>]
    ELSE IF Val(IntOf(Val(product_compare))) = 0
    THEN [raised |-> None, value |-> <<>>]
    ELSE IF reply.kind = "raise"
    THEN [raised |-> None, value |-> <<>>]
    ELSE IF reply.kind \in {"none", "no_competitions"} \/ reply.offers = <<>>
    THEN [raised |-> None, value |-> <<>>]
    ELSE [raised |-> None,
          value |-> StandardOffers(reply.offers, min_price, max_price, commission)]

update_price(offer_id, new_price, offer_type, reply) ==
    IF IntOf(offer_id) = None \/ reply.kind = "raise"
    THEN [raised |-> None, value |-> FALSE]
    ELSE IF reply.kind = "response" /\ reply.statusCode = 200
    THEN [raised |-> None, value |-> TRUE]
    ELSE [raised |-> None, value |-> FALSE]

InitAdapter ==
    /\ pc = "start"
    /\ payload \in AdapterPayloads
    /\ calls = <<>>
    /\ current_offer = None
    /\ competitor_offers = None
    /\ d_price = None
    /\ candidate = None
    /\ target_price = None
    /\ competitor_name = None
    /\ raised = None
    /\ result = None
    /\ args = None
    /\ ret = None
    /\ MainIdle
    /\ AuthIdle

\* BUOC 1 on the Driffle adapter
DriffleGetMyOfferDetails ==
    /\ pc = "get_my_offer_details"
    /\ \E reply \in OfferDetailReplies :
          LET out == get_my_offer_details(payload.product_compare, reply)
              p == [payload EXCEPT !.current_price = Some(Val(out.value).price),
                                   !.offer_id = Some(Val(out.value).offer_id)]
          IN  /\ calls' = Append(calls, Call("get_my_offer_details", reply.kind))
              /\ IF out.raised # None
                 THEN /\ raised' = out.raised
                      /\ result' = Some(OnException(Val(out.raised)))
                      /\ pc' = "done"
                      /\ UNCHANGED <<payload, current_offer>>
                 ELSE IF out.value = None
                 THEN /\ result' = Some(PayloadResult(0, None,
                                            <<"Fetch Current Details Failed", "">>,
                                            None, None, None))
                      /\ pc' = "done"
                      /\ UNCHANGED <<payload, current_offer, raised>>
                 ELSE /\ current_offer' = out.value
                      /\ UNCHANGED raised
                      /\ IF get_compare_mode(p) = 0
                         THEN /\ payload' = Mode0(p, Val(out.value).offer_type).payload
                              /\ result' = Some(Mode0(p, Val(out.value).offer_type).result)
                              /\ pc' = "done"
                         ELSE /\ payload' = p
                              /\ UNCHANGED result
                              /\ pc' = "get_competitor_prices"
    /\ UNCHANGED <<competitor_offers, d_price, candidate, target_price, competitor_name,
                   args, ret>>
    /\ UNCHANGED <<mainVars, authVars>>

\* BUOC 2.. on the Driffle adapter; args keeps the payload as it was passed
DriffleGetCompetitorPrices ==
    /\ pc = "get_competitor_prices"
    /\ \E reply \in CompetitionReplies, commission \in CommissionReplies,
          d \in Draws(payload) :
          LET fetched == get_competitor_prices(payload.product_compare, None, None,
                                               reply, commission)
              out == Compare(payload, fetched.value, d, Val(current_offer).offer_type)
          IN  /\ calls' = Append(calls, Call("get_competitor_prices", reply.kind))
              /\ args' = Some(payload)
              /\ d_price' = Some(d)
              /\ IF fetched.raised # None
                 THEN /\ raised' = fetched.raised
                      /\ result' = Some(OnException(Val(fetched.raised)))
                      /\ UNCHANGED <<payload, competitor_offers, candidate, target_price,
                                     competitor_name>>
                 ELSE /\ competitor_offers' = Some(fetched.value)
                      /\ payload' = out.payload
                      /\ candidate' = out.candidate
                      /\ target_price' = out.target_price
                      /\ competitor_name' = out.competitor_name
                      /\ raised' = out.raised
                      /\ result' = Some(out.result)
    /\ pc' = "done"
    /\ UNCHANGED <<current_offer, ret>>
    /\ UNCHANGED <<mainVars, authVars>>

\* step 4 of process_row_wrapper on the Driffle adapter; ret is what the
\* task receives, or None if update_price raised
DriffleUpdatePrice ==
    /\ pc = "done"
    /\ result # None
    /\ ShouldUpdate(Val(result))
    /\ \E reply \in UpdateOfferReplies :
          LET r == Val(result)
              out == update_price(Val(r.offer_id), Val(r.final_price).price,
                                  IF r.offer_type = None THEN "key" ELSE Val(r.offer_type),
                                  reply)
          IN  /\ calls' = Append(calls, Call("update_price", reply.kind))
              /\ ret' = IF out.raised # None THEN None ELSE Some(out.value)
    /\ pc' = "update_price_return"
    /\ UNCHANGED <<payload, current_offer, competitor_offers, d_price, candidate,
                   target_price, competitor_name, raised, result, args>>
    /\ UNCHANGED <<mainVars, authVars>>

NextAdapter ==
    \/ Validate
    \/ DriffleGetMyOfferDetails
    \/ DriffleGetCompetitorPrices
    \/ DriffleUpdatePrice

SpecAdapter == InitAdapter /\ [][NextAdapter]_vars

(***************************************************************************)
(* AuthHandler (src/logic/auth.py): get_auth_headers called by several     *)
(* coroutines of one event loop.  A coroutine runs until its next await:   *)
(* the wait for _lock or the token request of _get_new_token.  _lock is 0  *)
(* when free, else the caller that holds it.  Tokens are numbered in the   *)
(* order the server issues them.  Time is counted in seconds and passes in *)
(* steps of TickStep, but not between the release of _lock and the wake-up *)
(* of a coroutine waiting for it, which the event loop does at once.       *)
(***************************************************************************)
MaxCallers == 3
MaxTicks == 4
TickStep == 300
TOKEN_LIFETIME == 600

Callers == 1..MaxCallers

NoCaller == [pc |-> "idle", stale |-> FALSE, epoch |-> 0, header |-> None]

\* self._access_token and time.time() < self._token_expires_at
TokenCached == _access_token # None /\ now < _token_expires_at

\* the tokens issued so far
Issued == Len(SelectSeq(token_requests, LAMBDA q : q.outcome = "token"))

Waiting == {c \in Callers : callers[c].pc = "_lock"}

\* return {"Authorization": f"Bearer {self._access_token}"}
ReturnHeader(c, token) ==
    callers' = [callers EXCEPT ![c].pc = "returned", ![c].header = token]

\* await self._get_new_token(), up to its await on the client
RequestToken(c) ==
    /\ _lock' = c
    /\ callers' = [callers EXCEPT ![c].pc = "_get_new_token"]
    /\ token_requests' = Append(token_requests, [by |-> c, outcome |-> "in_flight"])
    /\ UNCHANGED <<_access_token, _token_expires_at>>

\* mutant: under the lock the cache is not looked at again
UnderLock_NoRecheck(c) ==
    RequestToken(c)

\* the body of "async with self._lock" up to its first await or its return
UnderLock(c) ==
    IF TokenCached
    THEN /\ ReturnHeader(c, _access_token)
         /\ UNCHANGED <<_access_token, _token_expires_at, _lock, token_requests>>
    ELSE RequestToken(c)

InitAuth ==
    /\ pc = "auth"
    /\ _access_token = None
    /\ _token_expires_at = 0
    /\ _lock = 0
    /\ now = TickStep
    /\ callers = [c \in Callers |-> NoCaller]
    /\ token_requests = <<>>
    /\ payload = None
    /\ args = None
    /\ ret = None
    /\ d_price = None
    /\ Idle
    /\ MainIdle

\* a call of get_auth_headers up to its first await
GetAuthHeaders(c) ==
    /\ callers[c].pc = "idle"
    /\ IF TokenCached
       THEN /\ callers' = [callers EXCEPT ![c].pc = "returned", ![c].epoch = Issued,
                                          ![c].header = _access_token]
            /\ UNCHANGED <<_access_token, _token_expires_at, _lock, token_requests>>
       ELSE IF _lock = 0 /\ Waiting = {}
       THEN /\ _lock' = c
            /\ callers' = [callers EXCEPT ![c].pc = "_get_new_token", ![c].stale = TRUE,
                                          ![c].epoch = Issued]
            /\ token_requests' = Append(token_requests, [by |-> c, outcome |-> "in_flight"])
            /\ UNCHANGED <<_access_token, _token_expires_at>>
       ELSE /\ callers' = [callers EXCEPT ![c].pc = "_lock", ![c].stale = TRUE,
                                          ![c].epoch = Issued]
            /\ UNCHANGED <<_access_token, _token_expires_at, _lock, token_requests>>
    /\ UNCHANGED <<now, pc, evalVars, mainVars>>

\* a waiting call gets the lock
AuthLockAcquired(c) ==
    /\ callers[c].pc = "_lock"
    /\ _lock = 0
    /\ UnderLock(c)
    /\ UNCHANGED <<now, pc, evalVars, mainVars>>

\* the token request is answered with a token
GetNewTokenReturns(c) ==
    /\ callers[c].pc = "_get_new_token"
    /\ _access_token' = Some(Issued + 1)
    /\ _token_expires_at' = now + TOKEN_LIFETIME
    /\ token_requests' = [token_requests EXCEPT ![Len(token_requests)].outcome = "token"]
    /\ _lock' = 0
    /\ ReturnHeader(c, Some(Issued + 1))
    /\ UNCHANGED <<now, pc, evalVars, mainVars>>

\* the token request fails: HTTP error status, transport error, bad answer
GetNewTokenRaises(c) ==
    /\ callers[c].pc = "_get_new_token"
    /\ token_requests' = [token_requests EXCEPT ![Len(token_requests)].outcome = "raise"]
    /\ _lock' = 0
    /\ callers' = [callers EXCEPT ![c].pc = "raised"]
    /\ UNCHANGED <<_access_token, _token_expires_at, now, pc, evalVars, mainVars>>

TimePasses ==
    /\ now < TickStep * MaxTicks
    /\ ~(_lock = 0 /\ Waiting # {})
    /\ now' = now + TickStep
    /\ UNCHANGED <<_access_token, _token_expires_at, _lock, callers, token_requests,
                   pc, evalVars, mainVars>>

NextAuth ==
    \/ \E c \in Callers : GetAuthHeaders(c)
    \/ \E c \in Callers : AuthLockAcquired(c)
    \/ \E c \in Callers : GetNewTokenReturns(c)
    \/ \E c \in Callers : GetNewTokenRaises(c)
    \/ TimePasses

SpecAuth == InitAuth /\ [][NextAuth]_vars

(***************************************************************************)
(* Properties of one evaluation.                                           *)
(***************************************************************************)
Done == pc = "done"

Decision == Val(result)

\* the config lacks a product name, has a negative rounding or lacks a target
Invalid ==
    \/ payload.product_name \in {None, Some("")}
    \/ payload.price_rounding # None /\ Val(payload.price_rounding) < 0
    \/ payload.product_compare = None

Mode == get_compare_mode(payload)

Floor == get_min_price_value(payload)

Fetched(name, reply) == \E i \in 1..Len(calls) : calls[i] = Call(name, reply)

Called(name) == \E i \in 1..Len(calls) : calls[i].name = name

\* the evaluation got its own offer and the competitor offers
Compared == Done /\ Fetched("get_competitor_prices", "offers")

\* the min price protection let the evaluation through to the mode's decision
FloorPassed ==
    /\ Compared
    /\ Floor # None
    /\ \/ Val(payload.current_price) < Val(Floor)
       \/ target_price # None /\ Val(target_price) >= Val(Floor)

IsFail == Decision.status = 0 /\ Decision.final_price = None

\* C1: an update decision carries a target price that is at least the
\* configured price floor, in every mode; in modes 1 and 2, when the current
\* price is not below the floor and the computed candidate is below it, the
\* decision is fail with no target price.
C1_PriceFloorSafety ==
    Done =>
        /\ Decision.status = 1 =>
              /\ Floor # None
              /\ Decision.final_price # None
              /\ Val(Decision.final_price).price >= Val(Floor)
        /\ ( /\ Compared
             /\ Mode \in {1, 2}
             /\ Floor # None
             /\ Val(payload.current_price) >= Val(Floor)
             /\ target_price # None
             /\ Val(target_price) < Val(Floor) ) => IsFail

C1_Witness ==
    /\ Compared
    /\ Mode \in {1, 2}
    /\ Floor # None
    /\ Val(payload.current_price) >= Val(Floor)
    /\ target_price # None
    /\ Val(target_price) < Val(Floor)
    /\ Decision.log_message[1] = "below_min"

\* C2: a config without product name, with a negative price_rounding or
\* without comparison target ends in a fail decision and no call of the
\* marketplace adapter is ever made for it.
C2_ValidationGate ==
    Invalid =>
        /\ calls = <<>>
        /\ pc \in {"start", "done"}
        /\ Done => IsFail

C2_Witness ==
    /\ Done
    /\ payload.product_name = Some("Elden Ring")
    /\ payload.product_compare # None
    /\ payload.price_rounding = Some(-1)
    /\ calls = <<>>
    /\ Decision.status = 0

\* C3: when the adapter returns no current offer, the decision is fail with
\* no target price and the competitor offers are never fetched.
C3_OwnOfferAbsence ==
    Fetched("get_my_offer_details", "nothing") =>
        /\ Done
        /\ IsFail
        /\ ~Called("get_competitor_prices")

C3_Witness ==
    /\ Fetched("get_my_offer_details", "nothing")
    /\ Mode \in {1, 2}
    /\ Done

\* C4: mode 0 fails without a floor; otherwise the target is the floor
\* rounded up to the configured precision, the decision is hold iff the target
\* is not significantly different from the current price, else update to the
\* target under the name "No Comparison"; applied_adj is 0 and the competitor
\* offers are never fetched.  Floor 5.00, current 5.00, rounding 2 holds;
\* floor 6.00 updates to 6.00.
C4_Mode0 ==
    (Done /\ Mode = 0 /\ Fetched("get_my_offer_details", "offer")) =>
        /\ ~Called("get_competitor_prices")
        /\ Floor = None => IsFail
        /\ Floor # None =>
              LET target == round_up_to_n_decimals(Val(Floor), payload.price_rounding)
                  near == ~_is_price_diff_significant(Val(payload.current_price), target, payload)
              IN  /\ payload.applied_adj = 0
                  /\ near => Decision.status = 2 /\ Decision.final_price = None
                  /\ ~near => /\ Decision.status = 1
                              /\ Decision.final_price = Some(CompareTarget("No Comparison", target))
        /\ ( /\ payload.price_rounding = Some(2)
             /\ payload.current_price = Some(5000) ) =>
              /\ Floor = Some(5000) => Decision.status = 2
              /\ Floor = Some(6000) =>
                    /\ Decision.status = 1
                    /\ Val(Decision.final_price).price = 6000

C4_Witness ==
    /\ Done
    /\ Mode = 0
    /\ Floor = Some(5004)
    /\ payload.price_rounding = Some(2)
    /\ payload.current_price = Some(4000)
    /\ Decision.status = 1
    /\ Val(Decision.final_price).price = 5010

\* C5: in modes 1 and 2 a config without price floor always ends in a fail
\* decision with no target price.
C5_NoFloorFails ==
    (Done /\ Mode \in {1, 2} /\ Floor = None) => IsFail

C5_Witness ==
    /\ Compared
    /\ Mode \in {1, 2}
    /\ Floor = None
    /\ competitor_offers # Some(<<>>)
    /\ target_price # None
    /\ Decision.log_message[1] = "no_min_price"

\* C6 (as claimed): in mode 1, when the current price is below the floor, the
\* target is forced to the floor whatever the competitor offers are, the
\* recorded applied_adj is 0 and, the gap being significant, the decision is
\* an update to the floor.
C6_SelfHealing ==
    ( /\ Compared
      /\ Mode = 1
      /\ Floor # None
      /\ Val(payload.current_price) < Val(Floor) ) =>
        /\ target_price = Floor
        /\ payload.applied_adj = 0
        /\ _is_price_diff_significant(Val(payload.current_price), Val(Floor), payload) =>
              /\ Decision.status = 1
              /\ Decision.final_price # None
              /\ Val(Decision.final_price).price = Val(Floor)

\* C7 (as claimed): in mode 1, once the floor check has passed, the decision
\* is hold iff the target is not significantly different from the current
\* price, and otherwise an update to the computed target under the name of
\* the chosen competitor.
C7_Mode1 ==
    (FloorPassed /\ Mode = 1) =>
        LET near == ~_is_price_diff_significant(Val(payload.current_price),
                                                Val(target_price), payload)
        IN  /\ near => Decision.status = 2 /\ Decision.final_price = None
            /\ ~near => /\ Decision.status = 1
                        /\ Decision.final_price # None
                        /\ Val(Decision.final_price).price = Val(target_price)
                        /\ Some(Val(Decision.final_price).name) = competitor_name

\* C8: mode 2 never raises the price: every update of mode 2 has a target
\* below the current price by more than the significance threshold, and when
\* the evaluation reaches the mode's decision with the current price below
\* the target by a significant gap, the decision is hold.
C8_Mode2NeverRaises ==
    (Done /\ Mode = 2) =>
        /\ Decision.status = 1 =>
              /\ Decision.final_price # None
              /\ Val(Decision.final_price).price < Val(payload.current_price)
              /\ _is_price_diff_significant(Val(payload.current_price),
                                            Val(Decision.final_price).price, payload)
        /\ ( /\ FloorPassed
             /\ Val(payload.current_price) < Val(target_price)
             /\ _is_price_diff_significant(Val(payload.current_price),
                                           Val(target_price), payload) ) =>
              Decision.status = 2 /\ Decision.final_price = None

C8_Witness ==
    /\ Done
    /\ Mode = 2
    /\ payload.current_price = Some(7000)
    /\ target_price = Some(9000)
    /\ Decision.status = 2

\* C9: a compare_mode other than 0, 1 and 2 ends in a fail decision with no
\* target price on every path.
C9_UnknownMode ==
    (Done /\ Mode \notin {0, 1, 2}) => IsFail

C9_Witness ==
    /\ FloorPassed
    /\ Mode \notin {0, 1, 2}
    /\ Len(Val(competitor_offers)) > 0
    /\ Decision.log_message[1] = "Unknown Mode"

\* C10: when a step of the evaluation raises, the evaluation still returns
\* a decision: fail, with no target price and a message carrying the error
\* text.
C10_NoExceptionEscapes ==
    raised # None =>
        /\ Done
        /\ result # None
        /\ IsFail
        /\ Decision.log_message = <<"Error", Val(raised)>>

C10_Witness ==
    /\ Done
    /\ raised = Some(TypeError)
    /\ Decision.status = 0

\* C11: every decision, on every branch, carries a log_message, and its
\* status is update (1) iff it carries a (target_name, target_price) pair.
C11_AuditMessage ==
    Done =>
        /\ result # None
        /\ Decision.log_message # None
        /\ Decision.log_message[1] # ""
        /\ Decision.status \in {0, 1, 2}
        /\ Decision.status = 1 <=> Decision.final_price # None

C11_Witness ==
    /\ Compared
    /\ Mode = 2
    /\ Decision.status = 2
    /\ Decision.log_message # None

\* the blacklist of the payload, and the offers of a list it leaves
BlackListOf(p) == IF p.fetched_black_list = None THEN {} ELSE Val(p.fetched_black_list)

Eligible(p, offers) ==
    {i \in 1..Len(offers) :
        \A seller \in BlackListOf(p) : Lower(seller) # Lower(offers[i].seller_name)}

\* C12: in modes 1 and 2, with an empty competitor list the candidate is
\* the calculator's result for the configured upper bound and the target name
\* is "No Competition"; with a list that holds a non-blacklisted offer the
\* candidate is the calculator's result for the lowest non-blacklisted price
\* and the target name is the name of a seller offering it.
C12_Candidate ==
    (Compared /\ Mode \in {1, 2}) =>
        LET offers == Val(competitor_offers)
            d == Val(d_price)
        IN  /\ offers = <<>> =>
                  /\ candidate = _calc_final_price(payload, payload.fetched_max_price, d).price
                  /\ competitor_name = Some("No Competition")
            /\ Eligible(payload, offers) # {} =>
                  \E i \in Eligible(payload, offers) :
                      /\ \A j \in Eligible(payload, offers) : offers[i].price <= offers[j].price
                      /\ competitor_name = Some(offers[i].seller_name)
                      /\ candidate = _calc_final_price(payload, Some(offers[i].price), d).price

C12_Witness ==
    /\ Compared
    /\ Mode = 1
    /\ Len(Val(competitor_offers)) = 2
    /\ Eligible(payload, Val(competitor_offers)) = {2}
    /\ Val(competitor_offers)[1].price < Val(competitor_offers)[2].price
    /\ competitor_name = Some("A")
    /\ HasBand(payload)
    /\ candidate = Some(8000 - Val(d_price))

(***************************************************************************)
(* Properties of _calc_final_price (under SpecCalc).                       *)
(***************************************************************************)
CalcReturned == pc = "calc_return"

\* the unbounded short-circuit: no candidate and no upper bound
ShortCircuit == args.price = None /\ args.payload.fetched_max_price = None

\* the price the calculator starts from
CalcBase == IF args.price = None THEN Val(args.payload.fetched_max_price) ELSE Val(args.price)

BandSet ==
    args.payload.min_price_adjustment # None /\ args.payload.max_price_adjustment # None

\* the adjusted price after the clamp and before the rounding
CalcClamped == Clamp(args.payload, CalcBase - payload.applied_adj)

\* C13: for adjustment bounds (a, b) in either order the recorded
\* applied_adj lies between the smaller and the larger of them and is the
\* amount subtracted from the candidate; after a call without band or through
\* the unbounded short-circuit applied_adj is 0, whatever it was before.
C13_AdjustmentBand ==
    CalcReturned =>
        LET a == args.payload.min_price_adjustment
            b == args.payload.max_price_adjustment
            adj == payload.applied_adj
        IN  /\ (BandSet /\ ~ShortCircuit) =>
                  /\ Val(a) <= adj \/ Val(b) <= adj
                  /\ adj <= Val(a) \/ adj <= Val(b)
                  /\ d_price = Some(adj)
                  /\ ( /\ args.payload.fetched_min_price = None
                       /\ args.payload.fetched_max_price = None
                       /\ args.payload.price_rounding = None ) =>
                        ret.value = Some(Val(args.price) - adj)
                  /\ args.payload.price_rounding = None => ret.value = Some(CalcClamped)
            /\ (~BandSet \/ ShortCircuit) => adj = 0

C13_Witness ==
    /\ CalcReturned
    /\ args.payload.min_price_adjustment = Some(40)
    /\ args.payload.max_price_adjustment = Some(-20)
    /\ args.payload.applied_adj = 25
    /\ args.price = Some(8000)
    /\ payload.applied_adj = 10
    /\ ret.value = Some(7990)

\* C14 (as claimed): with both fetched_min_price and fetched_max_price set
\* (and ordered), the returned price lies within them, for every candidate,
\* band and rounding.
C14_WithinBounds ==
    ( /\ CalcReturned
      /\ args.payload.fetched_min_price # None
      /\ args.payload.fetched_max_price # None
      /\ Val(args.payload.fetched_min_price) <= Val(args.payload.fetched_max_price) ) =>
        /\ ret.value # None
        /\ Val(args.payload.fetched_min_price) <= Val(ret.value)
        /\ Val(ret.value) <= Val(args.payload.fetched_max_price)

\* C15: with price_rounding set, the returned price is a multiple of
\* 10^-price_rounding, is not below the clamped value and exceeds it by less
\* than one step.
C15_Ceiling ==
    (CalcReturned /\ args.payload.price_rounding # None /\ ~ShortCircuit) =>
        LET step == StepOf(Val(args.payload.price_rounding))
        IN  /\ ret.value # None
            /\ Val(ret.value) % step = 0
            /\ Val(ret.value) >= CalcClamped
            /\ Val(ret.value) - CalcClamped < step

C15_Witness ==
    /\ CalcReturned
    /\ args.payload.price_rounding = Some(2)
    /\ args.price = Some(8503)
    /\ ~BandSet
    /\ args.payload.fetched_max_price = None
    /\ ret.value = Some(8510)

(***************************************************************************)
(* Properties of _is_price_diff_significant (under SpecSignificant).       *)
(***************************************************************************)
SigReturned == pc = "sig_return"

\* one unit of rounding, in thousandths
SigStep ==
    CASE args.payload.price_rounding = None -> 10
      [] args.payload.price_rounding = Some(0) -> 1000
      [] args.payload.price_rounding = Some(1) -> 100
      [] args.payload.price_rounding = Some(2) -> 10
      [] args.payload.price_rounding = Some(3) -> 1

SigBandSet ==
    args.payload.min_price_adjustment # None /\ args.payload.max_price_adjustment # None

SigNoise ==
    IF SigBandSet
    THEN Abs(Val(args.payload.max_price_adjustment) - Val(args.payload.min_price_adjustment))
    ELSE 0

SigDiff == Abs(args.price1 - args.price2)

\* C16: the filter answers true iff |a - b| > max(noise + step/2, 1.5 * step)
\* (compared doubled); so it is false for a = b, symmetric in (a, b), and with
\* step 0.01 and no band true for (1.00, 1.02) and false for (1.00, 1.005).
C16_Significance ==
    SigReturned =>
        /\ ret.value = (2 * SigDiff > 2 * SigNoise + SigStep /\ 2 * SigDiff > 3 * SigStep)
        /\ args.price1 = args.price2 => ret.value = FALSE
        /\ ret.value = _is_price_diff_significant(args.price2, args.price1, args.payload)
        /\ (SigStep = 10 /\ ~SigBandSet /\ args.price1 = 1000 /\ args.price2 = 1020) =>
              ret.value = TRUE
        /\ (SigStep = 10 /\ ~SigBandSet /\ args.price1 = 1000 /\ args.price2 = 1005) =>
              ret.value = FALSE

C16_Witness ==
    /\ SigReturned
    /\ args.payload.price_rounding = None
    /\ args.payload.min_price_adjustment = Some(40)
    /\ args.payload.max_price_adjustment = Some(10)
    /\ args.price1 = 1000
    /\ args.price2 = 1020
    /\ ret.value = FALSE

\* C17 (as claimed): with no adjustment band, two prices that differ by at
\* least one unit of rounding are reported as significantly different.
C17_OneUnitDetection ==
    (SigReturned /\ ~SigBandSet /\ SigDiff >= SigStep) => ret.value = TRUE

\* C17 (amended): with no adjustment band, two prices that differ by more
\* than one and a half units of rounding (on the rounding grid: by two units
\* or more) are reported as significantly different, and two prices that
\* differ by exactly one unit are not.
C17_TwoUnitDetection ==
    (SigReturned /\ ~SigBandSet) =>
        /\ 2 * SigDiff > 3 * SigStep => ret.value = TRUE
        /\ SigDiff >= 2 * SigStep => ret.value = TRUE
        /\ SigDiff = SigStep => ret.value = FALSE

C17_Witness ==
    /\ SigReturned
    /\ ~SigBandSet
    /\ args.payload.price_rounding = Some(2)
    /\ args.price1 = 1020
    /\ args.price2 = 1000
    /\ ret.value = TRUE

(***************************************************************************)
(* Properties of analyze_competition (under SpecAnalyze).                  *)
(***************************************************************************)
AnalyzeReturned == pc = "analyze_return"

ExampleOffers ==
    <<[seller_name |-> "A", price |-> 10000], [seller_name |-> "B", price |-> 8000],
      [seller_name |-> "C", price |-> 9000]>>

\* C18: the competitive target is the first offer of minimal price among the
\* offers whose seller matches no blacklist entry case-insensitively; the
\* offers [{A,10},{B,8},{C,9}] give 8 from B without blacklist and 9 from C
\* with B (in either case) blacklisted; a blacklisted seller is never
\* returned.
C18_TargetSelection ==
    AnalyzeReturned =>
        LET offers == args.offers
            E == Eligible(args.payload, offers)
            r == ret.value
        IN  /\ E # {} =>
                 \E i \in E :
                    /\ \A j \in E : offers[i].price <= offers[j].price
                    /\ \A j \in E : j < i => offers[j].price > offers[i].price
                    /\ r.competitor_name = Some(offers[i].seller_name)
                    /\ r.competitive_price = Some(offers[i].price)
            /\ r.competitor_name # None =>
                 \A seller \in BlackListOf(args.payload) :
                    Lower(seller) # Lower(Val(r.competitor_name))
            /\ (offers = ExampleOffers /\ BlackListOf(args.payload) = {}) =>
                 r.competitor_name = Some("B") /\ r.competitive_price = Some(8000)
            /\ (offers = ExampleOffers /\ BlackListOf(args.payload) \in {{"B"}, {"b"}}) =>
                 r.competitor_name = Some("C") /\ r.competitive_price = Some(9000)

C18_Witness ==
    /\ AnalyzeReturned
    /\ args.offers = ExampleOffers
    /\ args.payload.fetched_black_list = Some({"b"})
    /\ ret.value.competitor_name = Some("C")
    /\ ret.value.competitive_price = Some(9000)

\* C19 (as claimed): sellers_below_min is the raw offers priced strictly
\* below the configured floor, whatever the blacklist is (empty without a
\* floor).
C19_BelowMinIndependent ==
    AnalyzeReturned =>
        LET floor == args.payload.fetched_min_price
            Under(o) == o.price < Val(floor)
        IN  ret.value.sellers_below_min =
                IF floor = None THEN <<>> ELSE SelectSeq(args.offers, Under)

\* C20: when no offer survives the blacklist the result has neither a
\* competitor name nor a competitive price and its audit list is the whole
\* input list; in every result the name is null iff the price is null.
C20_NullResult ==
    AnalyzeReturned =>
        /\ Eligible(args.payload, args.offers) = {} =>
              /\ ret.value.competitor_name = None
              /\ ret.value.competitive_price = None
              /\ ret.value.top_sellers_for_log = args.offers
        /\ ret.value.competitor_name = None <=> ret.value.competitive_price = None

C20_Witness ==
    /\ AnalyzeReturned
    /\ Len(args.offers) = 2
    /\ args.offers[1].seller_name # args.offers[2].seller_name
    /\ args.payload.fetched_black_list = Some({"A", "b", "c"})
    /\ ret.value.competitor_name = None
    /\ ret.value.competitive_price = None
    /\ ret.value.top_sellers_for_log = args.offers

(***************************************************************************)
(* More properties of one evaluation (under Spec and FairSpec).            *)
(***************************************************************************)
\* no offer of the fetched list survives the blacklist
NoneEligible == Eligible(payload, Val(competitor_offers)) = {}

BelowFloor == Floor # None /\ Val(payload.current_price) < Val(Floor)

\* C23 (as claimed): in mode 2, a current price below the floor by a
\* significant gap is corrected: the decision is update with the floor as
\* target price and applied_adj 0.
C23_SelfHealingMode2 ==
    ( /\ Compared
      /\ Mode = 2
      /\ BelowFloor
      /\ _is_price_diff_significant(Val(payload.current_price), Val(Floor), payload) ) =>
        /\ Decision.status = 1
        /\ Decision.final_price # None
        /\ Val(Decision.final_price).price = Val(Floor)
        /\ payload.applied_adj = 0

\* C24 (as claimed): in modes 1 and 2, a non-empty list of offers that are
\* all blacklisted is treated as no competition: the candidate is the
\* calculator's result for an absent input, and in mode 1, when the target
\* differs significantly from the current price, the decision is update under
\* the name "No Competition".
C24_AllBlacklisted ==
    ( /\ Compared
      /\ Mode \in {1, 2}
      /\ Val(competitor_offers) # <<>>
      /\ NoneEligible ) =>
        /\ candidate = _calc_final_price(payload, None, Val(d_price)).price
        /\ ( /\ Mode = 1
             /\ FloorPassed
             /\ target_price # None
             /\ _is_price_diff_significant(Val(payload.current_price),
                                           Val(target_price), payload) ) =>
              /\ Decision.status = 1
              /\ Decision.final_price # None
              /\ Val(Decision.final_price).name = "No Competition"

\* C25: with no candidate (no offer, or none that survives the blacklist) and
\* no upper bound, the calculator returns the absent upper bound and leaves
\* applied_adj 0; in modes 1 and 2 such an evaluation ends in fail unless the
\* current price is below the floor, and an update it ends in has the floor
\* as its target price.
C25_UnboundedSentinel ==
    ( /\ Compared
      /\ Mode \in {1, 2}
      /\ NoneEligible
      /\ payload.fetched_max_price = None ) =>
        /\ candidate = None
        /\ payload.applied_adj = 0
        /\ ~BelowFloor => IsFail
        /\ Decision.status = 1 =>
              /\ BelowFloor
              /\ Decision.final_price # None
              /\ Val(Decision.final_price).price = Val(Floor)

C25_Witness ==
    /\ Compared
    /\ Mode = 2
    /\ Val(competitor_offers) = <<>>
    /\ payload.fetched_max_price = None
    /\ Floor # None
    /\ Val(payload.current_price) > Val(Floor)
    /\ candidate = None
    /\ raised = Some(TypeError)
    /\ IsFail

CallNames == [i \in 1..Len(calls) |-> calls[i].name]

\* C26: one evaluation calls get_my_offer_details at most once and
\* get_competitor_prices at most once and only after it, never calls
\* update_price, has a decision exactly when it has ended, never changes a
\* decision it has made, and ends.
C26_SinglePass ==
    /\ [](/\ CallNames \in {<<>>, <<"get_my_offer_details">>,
                            <<"get_my_offer_details", "get_competitor_prices">>}
          /\ Done <=> result # None)
    /\ [][result # None => result' = result]_vars
    /\ <>Done

C26_Witness ==
    /\ Done
    /\ CallNames = <<"get_my_offer_details", "get_competitor_prices">>
    /\ calls[2].reply = "raise"
    /\ result # None

(***************************************************************************)
(* Properties of run_automation and process_row_wrapper (under SpecMain).  *)
(***************************************************************************)
Rows == 1..Len(tasks)

\* the tasks that were created and have not returned
InFlight == {r \in Rows : tasks[r].pc \notin {"none", "done"}}

\* the batch a row belongs to: consecutive groups of CONCURRENT_WORKERS rows
BatchOf(r) == ((r - 1) \div CONCURRENT_WORKERS) + 1

\* the gather of the row's batch has returned
Gathered(r) ==
    BatchOf(r) < current_batch_num \/ pc \in {"batch_update_logs", "return"}

\* C21: every task that has ended has returned one entry (row, note) with a
\* note, and once the gather of its batch is over that entry is, exactly
\* once, in the batch_update_logs call of its batch.
C21_ResultNote ==
    \A r \in Rows :
        tasks[r].pc = "done" =>
            /\ tasks[r].returned # None
            /\ Val(tasks[r].returned).row = r
            /\ Val(tasks[r].returned).note[1] # ""
            /\ Gathered(r) =>
                  \E k \in 1..Len(pushed) :
                     /\ pushed[k].batch = BatchOf(r)
                     /\ Cardinality({j \in 1..Len(pushed[k].updates) :
                                        pushed[k].updates[j].row = r}) = 1
                     /\ \E j \in 1..Len(pushed[k].updates) :
                           pushed[k].updates[j] = Val(tasks[r].returned)

C21_Witness ==
    /\ pc = "return"
    /\ Len(tasks) = 3
    /\ Len(pushed) = 2
    /\ pushed[2].completed
    /\ Val(tasks[1].returned).note = <<"Error: e", "">>
    /\ Val(tasks[2].returned).note = <<"compare", "ERROR: API update call failed.">>
    /\ Val(tasks[3].returned).note = <<"equal", "">>

\* C22: update_price is called at most once for a row, and only for a
\* decision with status 1, a target price and an offer id, with that offer id
\* and exactly that price; never for a decision with status 0 or 2.
C22_NoWriteWithoutUpdate ==
    \A r \in Rows :
        /\ Len(tasks[r].sent) <= 1
        /\ tasks[r].sent # <<>> =>
              /\ tasks[r].result # None
              /\ Val(tasks[r].result).status = 1
              /\ Val(tasks[r].result).final_price # None
              /\ Val(tasks[r].result).offer_id \notin {None, Some("")}
              /\ tasks[r].sent[1].offer_id = Val(tasks[r].result).offer_id
              /\ tasks[r].sent[1].new_price = Val(Val(tasks[r].result).final_price).price
        /\ (tasks[r].result # None /\ Val(tasks[r].result).status \in {0, 2}) =>
              tasks[r].sent = <<>>

C22_Witness ==
    /\ Len(tasks) >= 2
    /\ tasks[1].pc = "done"
    /\ tasks[1].sent = <<[offer_id |-> Some("700583"), new_price |-> 8000]>>
    /\ tasks[2].pc = "done"
    /\ tasks[2].result # None
    /\ Val(tasks[2].result).status = 2
    /\ tasks[2].sent = <<>>

\* C27: at most CONCURRENT_WORKERS tasks are in flight; every task in flight
\* holds one permit and gives it back when it ends, so the free permits
\* never exceed CONCURRENT_WORKERS and are all back after every batch.
C27_BoundedWorkers ==
    /\ Cardinality(InFlight) <= CONCURRENT_WORKERS
    /\ worker_semaphore \in 0..CONCURRENT_WORKERS
    /\ worker_semaphore + Cardinality(InFlight) = CONCURRENT_WORKERS
    /\ pc \in {"batch_update_logs", "return"} => worker_semaphore = CONCURRENT_WORKERS

C27_Witness ==
    /\ pc = "batch_update_logs"
    /\ current_batch_num = 1
    /\ Len(tasks) >= CONCURRENT_WORKERS
    /\ Val(tasks[1].returned).note = <<"Error: e", "">>
    /\ Val(tasks[2].returned).note = <<"compare", "">>
    /\ worker_semaphore = CONCURRENT_WORKERS

\* C28: no two spreadsheet operations are in progress at the same time.
C28_SheetMutex == Cardinality(sheet_ops) <= 1

C28_Witness ==
    \E r \in Rows, q \in Rows :
        /\ tasks[r].pc = "fetch_data_for_payload"
        /\ tasks[q].pc = "google_sheets_lock"
        /\ sheet_ops = {<<"fetch_data_for_payload", r>>}

\* C29: the tasks in flight are rows of the current batch; a row is started
\* only after the writeback of every earlier batch has completed; a
\* writeback is issued once per batch, after all tasks of the batch have
\* ended, with at most CONCURRENT_WORKERS entries.
C29_BatchBarrier ==
    /\ \A r \in InFlight : BatchOf(r) = current_batch_num
    /\ \A r \in Rows :
          tasks[r].pc # "none" =>
              \A b \in 1..(BatchOf(r) - 1) :
                  \E k \in 1..Len(pushed) : pushed[k].batch = b /\ pushed[k].completed
    /\ \A k \in 1..Len(pushed) :
          /\ \A r \in Rows : BatchOf(r) = pushed[k].batch => tasks[r].pc = "done"
          /\ Len(pushed[k].updates) <= CONCURRENT_WORKERS
          /\ \A j \in 1..Len(pushed) : pushed[j].batch = pushed[k].batch => j = k

C29_Witness ==
    /\ current_batch_num = 2
    /\ Len(tasks) = 3
    /\ tasks[3].pc = "process_single_payload"
    /\ Len(pushed) = 1
    /\ pushed[1].completed
    /\ Len(pushed[1].updates) = 2

\* C30 (as claimed): a row in its relax delay does not hold back another
\* row: when every task in flight is asleep and a row has not been started,
\* run_automation can start the next row.
C30_RelaxLocal ==
    ( /\ \E r \in Rows : tasks[r].pc = "sleep"
      /\ \A r \in InFlight : tasks[r].pc = "sleep"
      /\ \E q \in Rows : tasks[q].pc = "none" ) =>
        ENABLED CreateTask

\* the row's task ended in the except clause of process_row_wrapper
RowFailed(r) ==
    /\ tasks[r].pc = "done"
    /\ tasks[r].returned # None
    /\ Val(tasks[r].returned).note = <<"Error: e", "">>

\* the entry the row returned is in a batch_update_logs call
Logged(r) ==
    \E k \in 1..Len(pushed) : \E j \in 1..Len(pushed[k].updates) :
        pushed[k].updates[j] = Val(tasks[r].returned)

\* a spreadsheet operation of run_automation itself has failed
SheetFailed ==
    \/ tasks = <<>>
    \/ pushed # <<>> /\ ~pushed[Len(pushed)].completed

\* C31: a row whose hydration or product-id lookup raises ends with an
\* "Error: ..." note and without a permit; a round ends only with every row of
\* every batch ended and logged, or after a spreadsheet operation of
\* run_automation has failed; and every round does end.
C31_RowErrorsLocal ==
    /\ [](/\ \A r \in Rows :
                (tasks[r].pc = "done" /\ tasks[r].result = None /\ processors # {}) =>
                    RowFailed(r)
          /\ worker_semaphore + Cardinality(InFlight) = CONCURRENT_WORKERS
          /\ (pc = "return" /\ ~SheetFailed) =>
                \A r \in Rows : tasks[r].pc = "done" /\ Logged(r))
    /\ []<>(pc = "return")

C31_Witness ==
    /\ pc = "return"
    /\ Len(tasks) = 3
    /\ RowFailed(1)
    /\ tasks[2].pc = "done" /\ tasks[2].result # None
    /\ tasks[3].pc = "done" /\ tasks[3].result # None
    /\ Logged(1) /\ Logged(2) /\ Logged(3)
    /\ ~SheetFailed

\* the kinds of answer of a client call that carry no data
NoData == {"raise", "none"}

\* C32: when the client call raises or returns nothing, get_my_offer_details
\* returns null, get_competitor_prices returns an empty list and update_price
\* returns false, and no exception leaves the adapter; after such a competitor
\* fetch the engine holds the empty list and its decision is the decision for
\* an empty competitor list: the candidate is the calculator's result for the
\* upper bound and the target name is "No Competition".
C32_AbsenceOfData ==
    /\ raised # Some("adapter timeout")
    /\ \A k \in NoData :
          /\ Fetched("get_my_offer_details", k) =>
                /\ current_offer = None
                /\ result = Some(PayloadResult(0, None, <<"Fetch Current Details Failed", "">>,
                                               None, None, None))
          /\ Fetched("get_competitor_prices", k) =>
                LET p == Val(args)
                    empty == Compare(p, <<>>, Val(d_price), "key")
                IN  /\ competitor_offers = Some(<<>>)
                    /\ competitor_name = Some("No Competition")
                    /\ candidate =
                          _calc_final_price(p, p.fetched_max_price, Val(d_price)).price
                    /\ result = Some(empty.result)
                    /\ payload = empty.payload
                    /\ target_price = empty.target_price
                    /\ raised = empty.raised
          /\ Fetched("update_price", k) => ret = Some(FALSE)

C32_Witness ==
    /\ pc = "update_price_return"
    /\ Fetched("get_competitor_prices", "raise")
    /\ Fetched("update_price", "none")
    /\ Decision.status = 1
    /\ Val(Decision.final_price) = CompareTarget("No Competition", 8500)
    /\ ret = Some(FALSE)

RequestsInFlight == {i \in 1..Len(token_requests) : token_requests[i].outcome = "in_flight"}

RequestsOf(c) == {i \in 1..Len(token_requests) : token_requests[i].by = c}

\* C33: at most one token request is in flight; a call that found the cached
\* token unexpired issues no request and returns that token; calls that found
\* no unexpired token issue, between them, no request after one has succeeded,
\* and each of them that returns a header returns the token of that one
\* successful request; a request that raises ends its call with the error and
\* leaves the cached token and its expiry unchanged.
C33_SingleFlight ==
    /\ [](/\ Cardinality(RequestsInFlight) <= 1
          /\ \A c \in Callers :
                /\ ~callers[c].stale => RequestsOf(c) = {}
                /\ Cardinality(RequestsOf(c)) <= 1
                /\ \A i \in RequestsOf(c) :
                      Len(SelectSeq(SubSeq(token_requests, 1, i - 1),
                                    LAMBDA q : q.outcome = "token")) = callers[c].epoch
                /\ (callers[c].pc = "returned" /\ callers[c].stale) =>
                      callers[c].header = Some(callers[c].epoch + 1)
                /\ (callers[c].pc = "returned" /\ ~callers[c].stale) =>
                      /\ callers[c].epoch > 0
                      /\ callers[c].header = Some(callers[c].epoch)
                /\ callers[c].pc = "raised" =>
                      \E i \in RequestsOf(c) : token_requests[i].outcome = "raise")
    /\ [][\A c \in Callers :
            (callers[c].pc = "_get_new_token" /\ callers'[c].pc = "raised") =>
                /\ _access_token' = _access_token
                /\ _token_expires_at' = _token_expires_at]_vars

C33_Witness ==
    /\ \A c \in Callers : callers[c].pc = "returned" /\ callers[c].stale
    /\ \A c \in Callers : callers[c].epoch = 0 /\ callers[c].header = Some(1)
    /\ Len(token_requests) = 1

====
